---- MODULE Spec2Model ----
(***************************************************************************)
(* Model of the money-movement core of the NFC payments backend:           *)
(*   - DoubleLedgerService (internal/services/ledger_service.go)           *)
(*   - TransactionService.CreateTransaction / BatchTransactions            *)
(*     (internal/services/transaction_service.go)                          *)
(* The relational store is modelled as committed tables plus, for every    *)
(* open database transaction, its uncommitted writes and the row locks it  *)
(* holds (SELECT ... FOR UPDATE); READ COMMITTED isolation.  A circular    *)
(* wait on row locks is left as a stuck state: the store's own deadlock    *)
(* detector is not part of the program.                                    *)
(***************************************************************************)
EXTENDS Integers, Sequences, FiniteSets, TLC

\* ---------------------------------------------------------------- bounds
NumProcs == 2        \* concurrent request workers
NumRacers == 3       \* concurrent transfers debiting one account
MaxCalls == 2        \* ledger calls started in one behaviour
MaxRequests == 2     \* HTTP requests started in one behaviour
MaxBatch == 2        \* items in one batch request
MaxFaults == 1       \* injected store failures in one behaviour
BalanceA == 3        \* opening balance of the first seeded account
BalanceB == 1        \* opening balance of the second seeded account
MaxAmount == 2       \* largest amount a caller submits
MaxExternal == 3     \* external bank transfers started in one behaviour

Procs == 1..NumProcs
Racers == 1..NumRacers
Workers == Procs \cup Racers
NoProc == 0

\* ------------------------------------------------------- seeded accounts
\* The immutable columns of the seeded account rows.
NULL == "NULL"

AccountRows ==
  { [id |-> "1", account_id |-> "0000000001", card_id |-> NULL],
    [id |-> "3", account_id |-> "1234567890", card_id |-> "card_001"],
    [id |-> "4", account_id |-> "2345678901", card_id |-> "card_002"] }

RowIds == { r.id : r \in AccountRows }
RowFee == "1"
RowA == "3"
RowB == "4"
NoRow == "NoRow"

\* Every identifier a caller may pass, in Go's byte-wise string order.
SortedIdents ==
  << "0000000001", "1", "1234567890", "2345678901", "3", "4", "9999999999",
     "card_001", "card_002", "card_999" >>

Idents == { SortedIdents[i] : i \in 1..Len(SortedIdents) }

Rank(s) == CHOOSE i \in 1..Len(SortedIdents) : SortedIdents[i] = s

\* Go's  a > b  on strings.
StrGT(a, b) == Rank(a) > Rank(b)

\* WHERE card_id = $1 OR account_id = $1 OR id = $1 LIMIT 1
Resolve(accountID) ==
  IF \E r \in AccountRows :
        r.card_id = accountID \/ r.account_id = accountID \/ r.id = accountID
  THEN (CHOOSE r \in AccountRows :
        r.card_id = accountID \/ r.account_id = accountID \/ r.id = accountID).id
  ELSE NoRow

Aliases(row) == { s \in Idents : Resolve(s) = row }

\* --------------------------------------------------------------- errors
ErrNoRows == "sql: no rows in result set"
ErrInsufficient == "insufficient balance"
ErrOptimistic == "optimistic lock failed"
ErrInsert == "ledger insert error"
ErrCommit == "commit error"
Nil == "nil"
None == "none"

VARIABLES
  db,          \* committed tables: accounts, ledger_entries, payment_states, transactions
  rowLock,     \* accounts row -> the process whose open transaction holds its FOR UPDATE lock
  dbtx,        \* per process: the uncommitted writes of its open database transaction
  pc,          \* per process: position in the running call
  op,          \* per process: the operation it runs
  args,        \* per process: (fromAccountID, toAccountID, transactionID, amount) of the ledger call
  acct,        \* per process: the account snapshots read by lockAccount
  req,         \* per process: the transaction being handled, the rest of the batch, the batch
  resp,        \* per process: the processed and failed lists of the batch response
  result,      \* per process: what the last finished call returned
  effects,     \* history: the requests whose ledger transfer was committed, in commit order
  settlement_queue,  \* the Redis list "settlement_queue"
  pair,        \* the two identifiers the callers of the opposite-transfer scenario use
  audit,       \* the events written by the AuditLogger
  clock,       \* time.Now().Unix()
  keys,        \* HSMServer.keys: key identifier -> key pair
  keyStore,    \* the files of the key-store directory: path -> the key pair saved in it
  signatures,  \* history: the signatures SignData has returned
  nkeys,       \* RSA key pairs generated so far
  ussd_codes,  \* the table ussd_codes
  ratelimit,   \* the Redis keys ussd:ratelimit:<user>
  issued,      \* history: per user, the codes returned since its rate-limit key was set
  qr,          \* the Redis keys "qr:<code>": payment data and expiry
  ncalls,      \* calls started so far
  nfaults      \* store failures injected so far

hsmVars == << keys, keyStore, signatures, nkeys >>
ussdVars == << ussd_codes, ratelimit, issued, qr >>

vars == << db, rowLock, dbtx, pc, op, args, acct, req, resp, result, effects,
           settlement_queue, pair, audit, ncalls, nfaults, clock,
           keys, keyStore, signatures, nkeys, ussd_codes, ratelimit, issued, qr >>

\* What the key service and the USSD service leave alone.
ledgerVars == << db, rowLock, dbtx, acct, req, resp, effects, settlement_queue, pair >>

\* ------------------------------------------------------- database pieces
EmptyTx == [ accounts |-> << >>, ledger_entries |-> << >>,
             payment_states |-> << >>, transactions |-> << >> ]

NoAccount == [ ID |-> NoRow, Balance |-> 0, Version |-> 0 ]
NoArgs == [ from |-> "", to |-> "", id |-> "", amount |-> 0 ]

InitDB ==
  [ accounts |-> [ r \in RowIds |->
        [ balance |-> IF r = RowA THEN BalanceA ELSE IF r = RowB THEN BalanceB ELSE 0,
          version |-> 1 ] ],
    ledger_entries |-> << >>,
    payment_states |-> << >>,
    transactions |-> << >> ]

\* The accounts as the open transaction t sees them: committed rows overlaid
\* with its own updates (a sequence of [id, balance, version] writes).
RECURSIVE ApplyAccountWrites(_, _)
ApplyAccountWrites(accts, writes) ==
  IF writes = << >> THEN accts
  ELSE ApplyAccountWrites(
         [ accts EXCEPT ![Head(writes).id] =
             [ balance |-> Head(writes).balance, version |-> Head(writes).version ] ],
         Tail(writes))

TxView(d, t) == ApplyAccountWrites(d.accounts, t.accounts)

\* tx.Commit(): every write of the transaction becomes visible at once.
AfterCommit(d, t) ==
  [ accounts |-> TxView(d, t),
    ledger_entries |-> d.ledger_entries \o t.ledger_entries,
    payment_states |-> d.payment_states \o t.payment_states,
    transactions |-> d.transactions \o t.transactions ]

\* A variant of rollback that keeps the payment states written so far.
AfterRollbackKeepsStates(d, t) ==
  [ d EXCEPT !.payment_states = d.payment_states \o t.payment_states ]

\* tx.Rollback(): none of the writes of the transaction survives.
AfterRollback(d, t) == d

ReleaseLocks(p) == [ r \in RowIds |-> IF rowLock[r] = p THEN NoProc ELSE rowLock[r] ]

\* ------------------------------------------------------- ledger service
\* appendPaymentState: INSERT INTO payment_states inside the transaction.
appendPaymentState(t, transactionID, state) ==
  [ t EXCEPT !.payment_states =
      Append(@, [ transaction_id |-> transactionID, state |-> state ]) ]

\* A variant that locks the sender first, whatever the identifiers.
LockOrderSenderFirst(fromAccountID, toAccountID) == << fromAccountID, toAccountID >>

\* firstLock, secondLock of TransferTx: the smaller identifier first.
LockOrder(fromAccountID, toAccountID) ==
  IF StrGT(fromAccountID, toAccountID)
  THEN << toAccountID, fromAccountID >>
  ELSE << fromAccountID, toAccountID >>

FirstLock(fromAccountID, toAccountID) == LockOrder(fromAccountID, toAccountID)[1]
SecondLock(fromAccountID, toAccountID) == LockOrder(fromAccountID, toAccountID)[2]

\* createLedgerEntry: INSERT INTO ledger_entries inside the transaction.
createLedgerEntry(t, transactionID, accountID, amount, entryType, balance) ==
  [ t EXCEPT !.ledger_entries =
      Append(@, [ transaction_id |-> transactionID, account_id |-> accountID,
                  amount |-> amount, entry_type |-> entryType, balance |-> balance ]) ]

\* updateAccountBalance: UPDATE accounts ... WHERE id = $3 AND version = $4;
\* rows affected is 1 exactly when the row the transaction sees has that version.
RowsAffected(d, t, accountID, version) ==
  IF accountID \in RowIds /\ TxView(d, t)[accountID].version = version THEN 1 ELSE 0

updateAccountBalance(d, t, accountID, newBalance, version) ==
  IF RowsAffected(d, t, accountID, version) = 0 THEN t
  ELSE [ t EXCEPT !.accounts =
           Append(@, [ id |-> accountID, balance |-> newBalance,
                       version |-> TxView(d, t)[accountID].version + 1 ]) ]

\* A variant without the balance check.
InsufficientBalanceNever(balance, amount) == FALSE

InsufficientBalance(balance, amount) == balance < amount

\* A variant that credits the receiver twice the amount.
CreditAmountDouble(amount) == amount + amount

CreditAmount(amount) == amount

\* The part of TransferTx after both locks are held.  Returns the error (or
\* Nil) and the transaction with the writes made up to the return.
TransferTxBody(d, t, a, first, second) ==
  LET fromAccount == IF FirstLock(a.from, a.to) # a.from THEN second ELSE first
      toAccount == IF FirstLock(a.from, a.to) # a.from THEN first ELSE second
      t1 == createLedgerEntry(t, a.id, fromAccount.ID, 0 - a.amount, "DEBIT",
                              fromAccount.Balance - a.amount)
      t2 == createLedgerEntry(t1, a.id, toAccount.ID, CreditAmount(a.amount), "CREDIT",
                              toAccount.Balance + CreditAmount(a.amount))
      t3 == updateAccountBalance(d, t2, fromAccount.ID,
                                 fromAccount.Balance - a.amount, fromAccount.Version)
      t4 == updateAccountBalance(d, t3, toAccount.ID,
                                 toAccount.Balance + CreditAmount(a.amount), toAccount.Version)
  IN  IF InsufficientBalance(fromAccount.Balance, a.amount)
        THEN [ err |-> ErrInsufficient, tx |-> t ]
      ELSE IF RowsAffected(d, t2, fromAccount.ID, fromAccount.Version) = 0
        THEN [ err |-> ErrOptimistic, tx |-> t2 ]
      ELSE IF RowsAffected(d, t3, toAccount.ID, toAccount.Version) = 0
        THEN [ err |-> ErrOptimistic, tx |-> t3 ]
      ELSE [ err |-> Nil, tx |-> t4 ]

\* ------------------------------- the second copy of the ledger service
\* TransferTx of the second copy swaps its own parameters and negates the
\* amount when fromAccountID > toAccountID.
TransferTx013Locals(a) ==
  IF StrGT(a.from, a.to)
  THEN [ from |-> a.to, to |-> a.from, id |-> a.id, amount |-> 0 - a.amount ]
  ELSE a

\* The part of that TransferTx after both locks are held.  createLedgerEntry
\* looks the row id up from the identifier; updateAccountBalance is given the
\* identifier itself for WHERE id = $3.
TransferTx013Body(d, t, a, first, second) ==
  LET l == TransferTx013Locals(a)
      fromAccount == first
      toAccount == second
      t1 == createLedgerEntry(t, l.id, Resolve(l.from), 0 - l.amount, "DEBIT",
                              fromAccount.Balance - l.amount)
      t2 == createLedgerEntry(t1, l.id, Resolve(l.to), l.amount, "CREDIT",
                              toAccount.Balance + l.amount)
      t3 == updateAccountBalance(d, t2, l.from, fromAccount.Balance - l.amount,
                                 fromAccount.Version)
      t4 == updateAccountBalance(d, t3, l.to, toAccount.Balance + l.amount,
                                 toAccount.Version)
  IN  IF fromAccount.Balance < l.amount
        THEN [ err |-> ErrInsufficient, tx |-> t ]
      ELSE IF RowsAffected(d, t2, l.from, fromAccount.Version) = 0
        THEN [ err |-> ErrOptimistic, tx |-> t2 ]
      ELSE IF RowsAffected(d, t3, l.to, toAccount.Version) = 0
        THEN [ err |-> ErrOptimistic, tx |-> t3 ]
      ELSE [ err |-> Nil, tx |-> t4 ]

\* -------------------------------------------------- transaction service
NoTx == [ Version |-> 0, TxID |-> "", Timestamp |-> 0, CardID |-> "", MerchantID |-> "",
          Amount |-> 0, Currency |-> "", Counter |-> 0, TxType |-> "", Signature |-> << >> ]
NoReq == [ tx |-> NoTx, rest |-> << >>, items |-> << >> ]

\* time.Now().Unix() when a request is validated.
Now == 1700000000
NoResp == [ processed |-> << >>, failed |-> << >> ]

\* accounts.status: every seeded account has the column default.
AccountStatus(row) == "ACTIVE"

\* accounts.user_id: the two seeded holders are two users; the system accounts
\* belong to no user.
user_id(row) ==
  CASE row = RowA -> "1"
    [] row = RowB -> "2"
    [] OTHER -> NULL

\* The "userID" the authentication middleware puts in the request context:
\* each worker serves the session of one user.
userID(p) == IF p = 1 THEN "1" ELSE "2"

\* SELECT ... FROM accounts WHERE card_id = $1
RowOfCard(cardID) ==
  IF \E r \in AccountRows : r.card_id = cardID
  THEN (CHOOSE r \in AccountRows : r.card_id = cardID).id
  ELSE NoRow

\* SELECT status FROM transactions WHERE transaction_id = $1 finds a row.
IdempotencyHit(d, txID) ==
  \E i \in 1..Len(d.transactions) : d.transactions[i].transaction_id = txID

validateAccountInternal(d, cardID) ==
  IF RowOfCard(cardID) = NoRow THEN "account not found"
  ELSE IF AccountStatus(RowOfCard(cardID)) # "ACTIVE" THEN "account not active"
  ELSE Nil

checkSufficientBalanceInternal(d, cardID, amount) ==
  IF RowOfCard(cardID) = NoRow THEN "account not found"
  ELSE IF AccountStatus(RowOfCard(cardID)) # "ACTIVE" THEN "account not active"
  ELSE IF d.accounts[RowOfCard(cardID)].balance < amount THEN ErrInsufficient
  ELSE Nil

validateTransaction(d, tx) ==
  IF tx.TxID = "" THEN "transaction ID is required"
  ELSE IF tx.CardID = "" THEN "card ID is required"
  ELSE IF validateAccountInternal(d, tx.CardID) # Nil
    THEN validateAccountInternal(d, tx.CardID)
  ELSE IF tx.MerchantID = "" THEN "merchant ID is required"
  ELSE IF tx.Amount <= 0 THEN "amount must be positive"
  ELSE IF tx.TxType = "DEBIT" /\ checkSufficientBalanceInternal(d, tx.CardID, tx.Amount) # Nil
    THEN checkSufficientBalanceInternal(d, tx.CardID, tx.Amount)
  ELSE IF tx.Currency = "" THEN "currency is required"
  ELSE IF tx.Counter = 0 THEN "counter is required"
  ELSE IF tx.Signature = << >> THEN "signature is required"
  ELSE IF tx.Timestamp > Now + 60 THEN "transaction timestamp is in the future"
  ELSE IF tx.Timestamp < Now - 86400 * 7 THEN "transaction timestamp is too old (>7 days)"
  ELSE Nil

\* []byte(s) of the strings that occur in requests (ASCII).
Bytes(s) ==
  CASE s = "" -> << >>
    [] s = "tx" -> << 116, 120 >>
    [] s = "tx1" -> << 116, 120, 49 >>
    [] s = "tx2" -> << 116, 120, 50 >>
    [] s = "card_00" -> << 99, 97, 114, 100, 95, 48, 48 >>
    [] s = "card_001" -> << 99, 97, 114, 100, 95, 48, 48, 49 >>
    [] s = "card_002" -> << 99, 97, 114, 100, 95, 48, 48, 50 >>
    [] s = "1card_002" -> << 49, 99, 97, 114, 100, 95, 48, 48, 50 >>
    [] s = "NGN" -> << 78, 71, 78 >>
    [] s = "USD" -> << 85, 83, 68 >>
    [] s = "DEBIT" -> << 68, 69, 66, 73, 84 >>
    [] s = "CREDIT" -> << 67, 82, 69, 68, 73, 84 >>

\* int64ToBytes: the eight bytes of n, most significant first; n within 32 bits,
\* so the upper four bytes are the sign extension.
int64ToBytes(n) ==
  [ i \in 1..8 |->
      IF i <= 4 THEN (IF n < 0 THEN 255 ELSE 0) ELSE (n \div 256 ^ (8 - i)) % 256 ]

\* uint32ToBytes: the four bytes of n, most significant first.
uint32ToBytes(n) == [ i \in 1..4 |-> (n \div 256 ^ (4 - i)) % 256 ]

\* A variant of the serialization that leaves the counter out.
serializeWithoutCounter(tx) ==
  << tx.Version >> \o Bytes(tx.TxID) \o int64ToBytes(tx.Timestamp) \o Bytes(tx.CardID)
    \o Bytes(tx.MerchantID) \o int64ToBytes(tx.Amount) \o Bytes(tx.Currency)
    \o Bytes(tx.TxType)

\* serializeTransaction: the fields appended one after the other, no separators.
serializeTransaction(tx) ==
  << tx.Version >> \o Bytes(tx.TxID) \o int64ToBytes(tx.Timestamp) \o Bytes(tx.CardID)
    \o Bytes(tx.MerchantID) \o int64ToBytes(tx.Amount) \o Bytes(tx.Currency)
    \o uint32ToBytes(tx.Counter) \o Bytes(tx.TxType)

\* SELECT cak FROM cards WHERE card_id = $1: every seeded card has its own key.
getCardAuthKey(cardID) ==
  IF RowOfCard(cardID) # NoRow THEN << "cak", cardID >> ELSE ErrNoRows

\* hex(HMAC-SHA256(key, data)), taken as collision-free: the digest stands for
\* the pair it was computed from.
HmacSha256Hex(key, data) == << key, data >>

\* A variant that accepts every signature.
verifySignatureAlways(tx) == Nil

verifySignature(tx) ==
  IF getCardAuthKey(tx.CardID) = ErrNoRows THEN "failed to get card keys"
  ELSE IF HmacSha256Hex(getCardAuthKey(tx.CardID), serializeTransaction(tx)) # tx.Signature
    THEN "signature mismatch"
  ELSE Nil

\* The largest counter among the rows of the card, COALESCE(MAX(counter), 0).
maxCounter(d, cardID) ==
  LET cs == { d.transactions[i].counter :
                i \in { j \in 1..Len(d.transactions) :
                          /\ d.transactions[j].card_id = cardID
                          /\ d.transactions[j].counter # NULL } }
  IN  IF cs = {} THEN 0 ELSE CHOOSE c \in cs : \A x \in cs : x <= c

checkDoubleSpending(d, tx) ==
  IF \E i \in 1..Len(d.transactions) :
        /\ d.transactions[i].card_id = tx.CardID
        /\ d.transactions[i].counter = tx.Counter
    THEN "counter already used"
  ELSE IF tx.Counter <= maxCounter(d, tx.CardID) THEN "counter not incrementing"
  ELSE Nil

\* The row storeTransaction / storeTransactionTx insert: the INSERT names
\* transaction_id, from_card_id, to_card_id, amount, currency, type, signature,
\* status and created_at; card_id and counter are not among its columns.
TransactionRow(tx) ==
  [ transaction_id |-> tx.TxID, from_card_id |-> tx.CardID, to_card_id |-> tx.MerchantID,
    amount |-> tx.Amount, status |-> "COMPLETED", card_id |-> NULL, counter |-> NULL ]

\* A variant of the table without the UNIQUE constraint.
UniqueViolationNever(d, txID) == FALSE

\* transactions.transaction_id is UNIQUE: a committed row with the key rejects the INSERT.
UniqueViolation(d, txID) ==
  \E i \in 1..Len(d.transactions) : d.transactions[i].transaction_id = txID

\* Another open transaction has inserted the key and not yet finished:
\* the INSERT waits for it.
UniqueWait(p, txID) ==
  \E q \in Workers \ {p} : \E i \in 1..Len(dbtx[q].transactions) :
     dbtx[q].transactions[i].transaction_id = txID

Effect(tx, path) ==
  [ TxID |-> tx.TxID, CardID |-> tx.CardID, Counter |-> tx.Counter, path |-> path ]

\* ------------------------------------------------------------ key service
\* (unnamed/part_003, package hsm)
KeyLifetime == 1     \* ExpiresAt - CreatedAt: 365 days in the code, seconds here
MaxTime == 3         \* the clock stops here
MaxKeys == 12        \* RSA key pairs generated in one behaviour
MaxHsmCalls == 3     \* key-service calls started in one behaviour

\* Strings of the key service are sequences of characters.
card_signing == << "c", "a", "r", "d", "_", "s", "i", "g", "n", "i", "n", "g" >>
transaction_signing ==
  << "t", "r", "a", "n", "s", "a", "c", "t", "i", "o", "n", "_",
     "s", "i", "g", "n", "i", "n", "g" >>
user_encryption ==
  << "u", "s", "e", "r", "_", "e", "n", "c", "r", "y", "p", "t", "i", "o", "n" >>

keyStorePath == << "/", "h", "s", "m" >>

\* The characters of the class [a-zA-Z0-9_-].
KeyIDChars ==
  { "a", "b", "c", "d", "e", "f", "g", "h", "i", "j", "k", "l", "m", "n", "o", "p",
    "q", "r", "s", "t", "u", "v", "w", "x", "y", "z",
    "A", "B", "C", "D", "E", "F", "G", "H", "I", "J", "K", "L", "M", "N", "O", "P",
    "Q", "R", "S", "T", "U", "V", "W", "X", "Y", "Z",
    "0", "1", "2", "3", "4", "5", "6", "7", "8", "9", "_", "-" }

\* fmt.Sprintf("%d", n)
Decimal(n) ==
  LET Digit == << "0", "1", "2", "3", "4", "5", "6", "7", "8", "9" >>
      RECURSIVE D(_)
      D(k) == IF k < 10 THEN << Digit[k + 1] >>
              ELSE D(k \div 10) \o << Digit[(k % 10) + 1] >>
  IN  D(n)

\* filepath.IsAbs on a Unix path.
IsAbs(path) == Len(path) > 0 /\ path[1] = "/"

\* filepath.Clean: the elements between separators, without the empty ones
\* and the "." ones, each ".." cancelling the element before it (or dropped at
\* the root), joined by single separators; "." when nothing is left.
Clean(path) ==
  LET RECURSIVE Elements(_, _, _)
      \* the elements of rest, cur being the one that is being read
      Elements(rest, cur, acc) ==
        IF rest = << >>
        THEN IF cur = << >> THEN acc ELSE Append(acc, cur)
        ELSE IF Head(rest) = "/"
        THEN Elements(Tail(rest), << >>, IF cur = << >> THEN acc ELSE Append(acc, cur))
        ELSE Elements(Tail(rest), Append(cur, Head(rest)), acc)
      RECURSIVE Resolve_(_, _)
      Resolve_(elems, out) ==
        IF elems = << >> THEN out
        ELSE LET e == Head(elems) IN
             IF e = << "." >> THEN Resolve_(Tail(elems), out)
             ELSE IF e = << ".", "." >>
             THEN IF out # << >> /\ out[Len(out)] # << ".", "." >>
                  THEN Resolve_(Tail(elems), SubSeq(out, 1, Len(out) - 1))
                  ELSE IF IsAbs(path)
                  THEN Resolve_(Tail(elems), out)
                  ELSE Resolve_(Tail(elems), Append(out, e))
             ELSE Resolve_(Tail(elems), Append(out, e))
      RECURSIVE Joined(_)
      Joined(elems) ==
        IF elems = << >> THEN << >>
        ELSE IF Len(elems) = 1 THEN elems[1]
        ELSE elems[1] \o << "/" >> \o Joined(Tail(elems))
      kept == Resolve_(Elements(path, << >>, << >>), << >>)
      body == IF IsAbs(path) THEN << "/" >> \o Joined(kept) ELSE Joined(kept)
  IN  IF body = << >> THEN << "." >> ELSE body

\* validateKeyID without its regular expression.
validateKeyIDPathOnly(keyID) ==
  IF keyID = << >> THEN "key ID cannot be empty"
  ELSE IF IsAbs(keyID) THEN "key ID cannot be an absolute path"
  ELSE IF Clean(keyID) # keyID THEN "key ID contains invalid path elements"
  ELSE Nil

validateKeyID(keyID) ==
  IF keyID = << >> THEN "key ID cannot be empty"
  ELSE IF IsAbs(keyID) THEN "key ID cannot be an absolute path"
  ELSE IF Clean(keyID) # keyID THEN "key ID contains invalid path elements"
  ELSE IF \E i \in 1..Len(keyID) : keyID[i] \notin KeyIDChars
  THEN "key ID contains invalid characters"
  ELSE Nil

\* filepath.Join(h.keyStorePath, keyID+".key")
KeyPath(keyID) ==
  Clean(keyStorePath \o << "/" >> \o keyID \o << ".", "k", "e", "y" >>)

\* filepath.Dir of a clean path.
Dir(path) ==
  LET slashes == { i \in 1..Len(path) : path[i] = "/" }
      last == CHOOSE i \in slashes : \A j \in slashes : j <= i
  IN  IF slashes = {} THEN << "." >>
      ELSE IF last = 1 THEN << "/" >>
      ELSE SubSeq(path, 1, last - 1)

\* Maps (the registry, the directory) as functions.
EmptyMap == [ k \in {} |-> Nil ]
Put(m, k, v) == [ x \in DOMAIN m \cup {k} |-> IF x = k THEN v ELSE m[x] ]
Remove(m, k) == [ x \in DOMAIN m \ {k} |-> m[x] ]

\* The RSA key pair number n, generated at time now.
generateKeyPairInternal(keyID, n, now) ==
  [ ID |-> keyID, Key |-> n, CreatedAt |-> now, ExpiresAt |-> now + KeyLifetime,
    IsActive |-> TRUE ]

\* rsa.SignPKCS1v15 and rsa.VerifyPKCS1v15 over the SHA-256 of the data: the
\* signature of a key on data is verified by that key on that data only.
SignPKCS1v15(key, data) == << "sig", key, data >>
VerifyPKCS1v15(key, data, signature) == signature = SignPKCS1v15(key, data)

\* now.After(keyPair.ExpiresAt) || !keyPair.IsActive
DueForRotation(keyPair, now) == now > keyPair.ExpiresAt \/ ~keyPair.IsActive

\* fmt.Sprintf("%s_%d", keyID, now.Unix())
newKeyID(keyID, now) == keyID \o << "_" >> \o Decimal(now)

\* loadKeys: every file of the directory is decrypted and registered under the
\* identifier it holds.
loadKeys(store) ==
  LET files == { f \in DOMAIN store : Dir(f) = keyStorePath } IN
  [ id \in { store[f].ID : f \in files } |->
      store[CHOOSE f \in files : store[f].ID = id] ]

NoHsm ==
  /\ clock = 0
  /\ keys = EmptyMap
  /\ keyStore = EmptyMap
  /\ signatures = {}
  /\ nkeys = 0

NoUssd ==
  /\ ussd_codes = {}
  /\ ratelimit = EmptyMap
  /\ issued = {}
  /\ qr = EmptyMap

\* ------------------------------------------------------------ audit log
\* The events of the AuditLogger, without their timestamp and details.
LogError(transactionID, accountID) ==
  [ EventType |-> "ERROR", TransactionID |-> transactionID, AccountID |-> accountID,
    Status |-> "FAILED" ]

LogTransfer(transactionID, status) ==
  [ EventType |-> "TRANSFER", TransactionID |-> transactionID, AccountID |-> "",
    Status |-> status ]

LogOperation(transactionID, accountID, operation) ==
  [ EventType |-> operation, TransactionID |-> transactionID, AccountID |-> accountID,
    Status |-> "SUCCESS" ]

\* ------------------------------------------------------------- actions
NoSnapshots == [ first |-> NoAccount, second |-> NoAccount ]

Init ==
  /\ db = InitDB
  /\ rowLock = [ r \in RowIds |-> NoProc ]
  /\ dbtx = [ p \in Workers |-> EmptyTx ]
  /\ pc = [ p \in Workers |-> "idle" ]
  /\ op = [ p \in Workers |-> None ]
  /\ args = [ p \in Workers |-> NoArgs ]
  /\ acct = [ p \in Workers |-> NoSnapshots ]
  /\ req = [ p \in Workers |-> NoReq ]
  /\ resp = [ p \in Workers |-> NoResp ]
  /\ result = [ p \in Workers |-> None ]
  /\ effects = << >>
  /\ settlement_queue = << >>
  /\ pair = << >>
  /\ audit = {}
  /\ NoHsm
  /\ NoUssd
  /\ ncalls = 0
  /\ nfaults = 0

\* The batch loop moves to its next item, or the handler writes the response.
BatchAdvance(p, processed, failed) ==
  /\ resp' = [ resp EXCEPT ![p] = [ processed |-> processed, failed |-> failed ] ]
  /\ IF req[p].rest = << >>
     THEN /\ pc' = [ pc EXCEPT ![p] = "done" ]
          /\ result' = [ result EXCEPT ![p] = "batch response" ]
          /\ req' = req
     ELSE /\ pc' = [ pc EXCEPT ![p] = "b_validate" ]
          /\ result' = result
          /\ req' = [ req EXCEPT ![p] = [ tx |-> Head(req[p].rest), rest |-> Tail(req[p].rest),
                                           items |-> req[p].items ] ]

\* A variant of the loop that stops at the first failed item.
BatchFailedAborts(p, error) ==
  /\ resp' = [ resp EXCEPT ![p].failed =
                 Append(@, [ txId |-> req[p].tx.TxID, error |-> error ]) ]
  /\ pc' = [ pc EXCEPT ![p] = "done" ]
  /\ result' = [ result EXCEPT ![p] = "batch response" ]
  /\ req' = req

BatchFailed(p, error) ==
  BatchAdvance(p, resp[p].processed,
               Append(resp[p].failed, [ txId |-> req[p].tx.TxID, error |-> error ]))

\* TransferTx returns err to its caller, whose deferred tx.Rollback() runs.
\* Transfer appends the FAILED payment state to the same transaction first.
LedgerError(p, t, err) ==
  /\ rowLock' = ReleaseLocks(p)
  /\ dbtx' = [ dbtx EXCEPT ![p] = EmptyTx ]
  /\ acct' = [ acct EXCEPT ![p] = NoSnapshots ]
  /\ CASE op[p] = "Transfer" ->
            /\ db' = AfterRollback(db, appendPaymentState(t, args[p].id, "FAILED"))
            /\ pc' = [ pc EXCEPT ![p] = "done" ]
            /\ result' = [ result EXCEPT ![p] = err ]
            /\ UNCHANGED << req, resp >>
       [] op[p] = "Transfer013" ->
            /\ db' = AfterRollback(db, t)
            /\ pc' = [ pc EXCEPT ![p] = "done" ]
            /\ result' = [ result EXCEPT ![p] = err ]
            /\ UNCHANGED << req, resp >>
       [] op[p] = "Create" ->
            /\ db' = AfterRollback(db, t)
            /\ pc' = [ pc EXCEPT ![p] = "done" ]
            /\ result' = [ result EXCEPT ![p] = "Failed to process transfer" ]
            /\ UNCHANGED << req, resp >>
       [] op[p] = "Batch" ->
            /\ db' = AfterRollback(db, appendPaymentState(t, args[p].id, "FAILED"))
            /\ BatchFailed(p, "Transfer failed")
  /\ audit' = IF op[p] \in {"Create", "Batch"}
              THEN audit \cup { LogError(args[p].id, args[p].from) }
              ELSE audit
  /\ UNCHANGED << op, args, effects, settlement_queue, pair, clock, hsmVars, ussdVars, ncalls >>

\* Transfer(from, to, id, amount) is called: db.Begin() and the PENDING state.
BeginTransfer(p, from, to, id, amount) ==
  /\ ncalls' = ncalls + 1
  /\ op' = [ op EXCEPT ![p] = "Transfer" ]
  /\ args' = [ args EXCEPT ![p] = [ from |-> from, to |-> to, id |-> id, amount |-> amount ] ]
  /\ dbtx' = [ dbtx EXCEPT ![p] = appendPaymentState(EmptyTx, id, "PENDING") ]
  /\ result' = [ result EXCEPT ![p] = None ]
  /\ pc' = [ pc EXCEPT ![p] = "lock1" ]
  /\ UNCHANGED << db, rowLock, acct, req, resp, effects, settlement_queue, pair, clock, hsmVars, ussdVars, audit, nfaults >>

StartTransfer(p, from, to, id, amount) ==
  /\ pc[p] \in {"idle", "done"}
  /\ ncalls < MaxCalls
  /\ BeginTransfer(p, from, to, id, amount)

\* One of the concurrent transfers debiting the same account.
StartRace(p, from, to, id, amount) ==
  /\ pc[p] = "idle"
  /\ BeginTransfer(p, from, to, id, amount)

\* A transfer between the two identifiers of the scenario, in either direction.
StartAB(p, id, amount) ==
  \/ StartTransfer(p, pair[1], pair[2], id, amount)
  \/ StartTransfer(p, pair[2], pair[1], id, amount)

\* Transfer of the second copy of the ledger service: db.Begin() only.
StartTransfer013(p, from, to, id, amount) ==
  /\ pc[p] \in {"idle", "done"}
  /\ ncalls < MaxCalls
  /\ ncalls' = ncalls + 1
  /\ op' = [ op EXCEPT ![p] = "Transfer013" ]
  /\ args' = [ args EXCEPT ![p] = [ from |-> from, to |-> to, id |-> id, amount |-> amount ] ]
  /\ dbtx' = [ dbtx EXCEPT ![p] = EmptyTx ]
  /\ result' = [ result EXCEPT ![p] = None ]
  /\ pc' = [ pc EXCEPT ![p] = "lock1" ]
  /\ UNCHANGED << db, rowLock, acct, req, resp, effects, settlement_queue, pair, clock, hsmVars, ussdVars, audit, nfaults >>

\* A variant of lockAccount that reads the row without FOR UPDATE: it neither
\* waits for nor takes the row lock.
LockStepNoWait(p, accountID, slot, nextpc) ==
  LET row == Resolve(accountID) IN
  IF row = NoRow
  THEN /\ LedgerError(p, dbtx[p], ErrNoRows)
       /\ UNCHANGED nfaults
  ELSE /\ acct' = [ acct EXCEPT ![p][slot] =
             [ ID |-> row, Balance |-> TxView(db, dbtx[p])[row].balance,
               Version |-> TxView(db, dbtx[p])[row].version ] ]
       /\ pc' = [ pc EXCEPT ![p] = nextpc ]
       /\ UNCHANGED << db, dbtx, rowLock, op, args, req, resp, result, effects,
                       settlement_queue, pair, clock, hsmVars, ussdVars, audit, ncalls, nfaults >>

\* lockAccount(tx, accountID) of TransferTx: blocks while another transaction
\* holds the row; reads the row as the transaction sees it.
LockStep(p, accountID, slot, nextpc) ==
  LET row == Resolve(accountID) IN
  IF row = NoRow
  THEN /\ LedgerError(p, dbtx[p], ErrNoRows)
       /\ UNCHANGED nfaults
  ELSE /\ rowLock[row] \in {NoProc, p}
       /\ rowLock' = [ rowLock EXCEPT ![row] = p ]
       /\ acct' = [ acct EXCEPT ![p][slot] =
             [ ID |-> row, Balance |-> TxView(db, dbtx[p])[row].balance,
               Version |-> TxView(db, dbtx[p])[row].version ] ]
       /\ pc' = [ pc EXCEPT ![p] = nextpc ]
       /\ UNCHANGED << db, dbtx, op, args, req, resp, result, effects,
                       settlement_queue, pair, clock, hsmVars, ussdVars, audit, ncalls, nfaults >>

LockFirst(p) ==
  /\ pc[p] = "lock1"
  /\ LockStep(p, FirstLock(args[p].from, args[p].to), "first", "lock2")

LockSecond(p) ==
  /\ pc[p] = "lock2"
  /\ LockStep(p, SecondLock(args[p].from, args[p].to), "second", "body")

\* The balance check, the two ledger entries and the two balance updates.
TransferBody(p) ==
  /\ pc[p] = "body"
  /\ op[p] # "Transfer013"
  /\ LET r == TransferTxBody(db, dbtx[p], args[p], acct[p].first, acct[p].second) IN
     IF r.err # Nil
     THEN /\ LedgerError(p, r.tx, r.err)
          /\ UNCHANGED nfaults
     ELSE /\ dbtx' = [ dbtx EXCEPT ![p] = r.tx ]
          /\ pc' = [ pc EXCEPT ![p] = IF op[p] = "Create" THEN "store" ELSE "commit" ]
          /\ audit' = IF op[p] = "Create"
                      THEN audit \cup { LogTransfer(args[p].id, "SUCCESS") }
                      ELSE audit
          /\ UNCHANGED << db, rowLock, op, args, acct, req, resp, result, effects,
                          settlement_queue, pair, clock, hsmVars, ussdVars, ncalls, nfaults >>

\* The second copy: Transfer returns what TransferTx returns, and the deferred
\* tx.Rollback() ends the transaction; there is no tx.Commit().
TransferBody013(p) ==
  /\ pc[p] = "body"
  /\ op[p] = "Transfer013"
  /\ LET r == TransferTx013Body(db, dbtx[p], args[p], acct[p].first, acct[p].second) IN
     /\ db' = AfterRollback(db, r.tx)
     /\ result' = [ result EXCEPT ![p] = r.err ]
  /\ rowLock' = ReleaseLocks(p)
  /\ dbtx' = [ dbtx EXCEPT ![p] = EmptyTx ]
  /\ acct' = [ acct EXCEPT ![p] = NoSnapshots ]
  /\ pc' = [ pc EXCEPT ![p] = "done" ]
  /\ UNCHANGED << op, args, req, resp, effects, settlement_queue, pair, clock, hsmVars, ussdVars, audit, ncalls, nfaults >>

\* The store rejects an INSERT INTO ledger_entries.
LedgerInsertFails(p) ==
  /\ pc[p] = "body"
  /\ op[p] # "Transfer013"
  /\ nfaults < MaxFaults
  /\ TransferTxBody(db, dbtx[p], args[p], acct[p].first, acct[p].second).err
        # ErrInsufficient
  /\ nfaults' = nfaults + 1
  /\ LedgerError(p, dbtx[p], ErrInsert)

\* Transfer: the SUCCESS payment state, then tx.Commit().  In a batch the
\* handler goes on to storeTransaction.
CommitTransfer(p) ==
  /\ pc[p] = "commit"
  /\ op[p] \in {"Transfer", "Batch"}
  /\ db' = AfterCommit(db, appendPaymentState(dbtx[p], args[p].id, "SUCCESS"))
  /\ rowLock' = ReleaseLocks(p)
  /\ dbtx' = [ dbtx EXCEPT ![p] = EmptyTx ]
  /\ acct' = [ acct EXCEPT ![p] = NoSnapshots ]
  /\ IF op[p] = "Transfer"
     THEN /\ pc' = [ pc EXCEPT ![p] = "done" ]
          /\ result' = [ result EXCEPT ![p] = Nil ]
          /\ effects' = effects
     ELSE /\ pc' = [ pc EXCEPT ![p] = "b_store" ]
          /\ result' = result
          /\ effects' = Append(effects, Effect(req[p].tx, "Batch"))
  /\ audit' = IF op[p] = "Batch"
              THEN audit \cup { LogTransfer(args[p].id, "SUCCESS") }
              ELSE audit
  /\ UNCHANGED << op, args, req, resp, settlement_queue, pair, clock, hsmVars, ussdVars, ncalls, nfaults >>

\* tx.Commit() of Transfer returns an error: nothing was committed.
CommitTransferFails(p) ==
  /\ pc[p] = "commit"
  /\ op[p] \in {"Transfer", "Batch"}
  /\ nfaults < MaxFaults
  /\ nfaults' = nfaults + 1
  /\ db' = AfterRollback(db, appendPaymentState(dbtx[p], args[p].id, "SUCCESS"))
  /\ rowLock' = ReleaseLocks(p)
  /\ dbtx' = [ dbtx EXCEPT ![p] = EmptyTx ]
  /\ acct' = [ acct EXCEPT ![p] = NoSnapshots ]
  /\ IF op[p] = "Transfer"
     THEN /\ pc' = [ pc EXCEPT ![p] = "done" ]
          /\ result' = [ result EXCEPT ![p] = ErrCommit ]
          /\ UNCHANGED << req, resp >>
     ELSE BatchFailed(p, "Transfer failed")
  /\ audit' = IF op[p] = "Batch"
              THEN audit \cup { LogError(args[p].id, args[p].from) }
              ELSE audit
  /\ UNCHANGED << op, args, effects, settlement_queue, pair, clock, hsmVars, ussdVars, ncalls >>

\* ---------------------------------------------------- CreateTransaction
\* The request is decoded and passes ValidateStruct.
StartCreate(p, tx) ==
  /\ pc[p] \in {"idle", "done"}
  /\ ncalls < MaxRequests
  /\ ncalls' = ncalls + 1
  /\ op' = [ op EXCEPT ![p] = "Create" ]
  /\ req' = [ req EXCEPT ![p] = [ tx |-> tx, rest |-> << >>, items |-> << tx >> ] ]
  /\ resp' = [ resp EXCEPT ![p] = NoResp ]
  /\ args' = [ args EXCEPT ![p] = NoArgs ]
  /\ result' = [ result EXCEPT ![p] = None ]
  /\ pc' = [ pc EXCEPT ![p] = "idem" ]
  /\ UNCHANGED << db, rowLock, dbtx, acct, effects, settlement_queue, pair, clock, hsmVars, ussdVars, audit, nfaults >>

\* The duplicate lookup on transactions.transaction_id.
Idempotency(p) ==
  /\ pc[p] = "idem"
  /\ IF IdempotencyHit(db, req[p].tx.TxID)
     THEN /\ pc' = [ pc EXCEPT ![p] = "done" ]
          /\ result' = [ result EXCEPT ![p] = "Transaction already processed" ]
     ELSE /\ pc' = [ pc EXCEPT ![p] = "validate" ]
          /\ result' = result
  /\ UNCHANGED << db, rowLock, dbtx, op, args, acct, req, resp, effects,
                  settlement_queue, pair, clock, hsmVars, ussdVars, audit, ncalls, nfaults >>

\* The duplicate lookup fails with a store error: err is not nil, the branch
\* of a found row is skipped and the handler goes on to validateTransaction.
IdempotencyFails(p) ==
  /\ pc[p] = "idem"
  /\ nfaults < MaxFaults
  /\ nfaults' = nfaults + 1
  /\ pc' = [ pc EXCEPT ![p] = "validate" ]
  /\ UNCHANGED << db, rowLock, dbtx, op, args, acct, req, resp, result, effects,
                  settlement_queue, pair, clock, hsmVars, ussdVars, audit, ncalls >>

\* A variant of the handler that records a transaction rejected by the checks
\* in the table transactions with status FAILED.
ValidateCreateRecordsRejected(p) ==
  /\ pc[p] = "validate"
  /\ LET tx == req[p].tx IN
     IF validateTransaction(db, tx) # Nil \/ verifySignature(tx) # Nil
     THEN /\ pc' = [ pc EXCEPT ![p] = "done" ]
          /\ result' = [ result EXCEPT ![p] = "Validation failed" ]
          /\ db' = [ db EXCEPT !.payment_states =
                       Append(@, [ transaction_id |-> tx.TxID, state |-> "FAILED" ]) ]
          /\ UNCHANGED << args, dbtx >>
     ELSE /\ pc' = [ pc EXCEPT ![p] = "lock1" ]
          /\ args' = [ args EXCEPT ![p] = [ from |-> tx.CardID, to |-> tx.MerchantID,
                                            id |-> tx.TxID, amount |-> tx.Amount ] ]
          /\ dbtx' = [ dbtx EXCEPT ![p] = EmptyTx ]
          /\ UNCHANGED << db, result >>
  /\ UNCHANGED << rowLock, op, acct, req, resp, effects, settlement_queue,
                  pair, clock, hsmVars, ussdVars, audit, ncalls, nfaults >>

\* validateTransaction, verifySignature, then db.Begin() and the call of
\* processLedgerTransferTx.
ValidateCreate(p) ==
  /\ pc[p] = "validate"
  /\ LET tx == req[p].tx IN
     IF validateTransaction(db, tx) # Nil
     THEN /\ pc' = [ pc EXCEPT ![p] = "done" ]
          /\ result' = [ result EXCEPT ![p] = "Validation failed" ]
          /\ UNCHANGED << args, dbtx >>
     ELSE IF verifySignature(tx) # Nil
     THEN /\ pc' = [ pc EXCEPT ![p] = "done" ]
          /\ result' = [ result EXCEPT ![p] = "Signature verification failed" ]
          /\ UNCHANGED << args, dbtx >>
     ELSE /\ pc' = [ pc EXCEPT ![p] = "lock1" ]
          /\ args' = [ args EXCEPT ![p] = [ from |-> tx.CardID, to |-> tx.MerchantID,
                                            id |-> tx.TxID, amount |-> tx.Amount ] ]
          /\ dbtx' = [ dbtx EXCEPT ![p] = EmptyTx ]
          /\ result' = result
  /\ UNCHANGED << db, rowLock, op, acct, req, resp, effects, settlement_queue,
                  pair, clock, hsmVars, ussdVars, audit, ncalls, nfaults >>

\* A variant that inserts the row outside the transaction, as storeTransaction does.
StoreCreateAutocommit(p) ==
  /\ pc[p] = "store"
  /\ IF UniqueViolation(db, req[p].tx.TxID)
     THEN /\ db' = AfterRollback(db, dbtx[p])
          /\ rowLock' = ReleaseLocks(p)
          /\ dbtx' = [ dbtx EXCEPT ![p] = EmptyTx ]
          /\ acct' = [ acct EXCEPT ![p] = NoSnapshots ]
          /\ pc' = [ pc EXCEPT ![p] = "done" ]
          /\ result' = [ result EXCEPT ![p] = "Failed to store transaction" ]
          /\ audit' = audit \cup { LogError(req[p].tx.TxID, req[p].tx.CardID) }
     ELSE /\ ~UniqueWait(p, req[p].tx.TxID)
          /\ db' = [ db EXCEPT !.transactions = Append(@, TransactionRow(req[p].tx)) ]
          /\ pc' = [ pc EXCEPT ![p] = "commit" ]
          /\ UNCHANGED << dbtx, rowLock, acct, result, audit >>
  /\ UNCHANGED << op, args, req, resp, effects, settlement_queue, pair, clock, hsmVars, ussdVars, ncalls, nfaults >>

\* storeTransactionTx: the INSERT INTO transactions inside the transaction.
StoreCreate(p) ==
  /\ pc[p] = "store"
  /\ IF UniqueViolation(db, req[p].tx.TxID)
     THEN /\ db' = AfterRollback(db, dbtx[p])
          /\ rowLock' = ReleaseLocks(p)
          /\ dbtx' = [ dbtx EXCEPT ![p] = EmptyTx ]
          /\ acct' = [ acct EXCEPT ![p] = NoSnapshots ]
          /\ pc' = [ pc EXCEPT ![p] = "done" ]
          /\ result' = [ result EXCEPT ![p] = "Failed to store transaction" ]
          /\ audit' = audit \cup { LogError(req[p].tx.TxID, req[p].tx.CardID) }
     ELSE /\ ~UniqueWait(p, req[p].tx.TxID)
          /\ dbtx' = [ dbtx EXCEPT ![p].transactions = Append(@, TransactionRow(req[p].tx)) ]
          /\ pc' = [ pc EXCEPT ![p] = "commit" ]
          /\ UNCHANGED << db, rowLock, acct, result, audit >>
  /\ UNCHANGED << op, args, req, resp, effects, settlement_queue, pair, clock, hsmVars, ussdVars, ncalls, nfaults >>

\* dbTx.Commit() of CreateTransaction.
CommitCreate(p) ==
  /\ pc[p] = "commit"
  /\ op[p] = "Create"
  /\ db' = AfterCommit(db, dbtx[p])
  /\ rowLock' = ReleaseLocks(p)
  /\ dbtx' = [ dbtx EXCEPT ![p] = EmptyTx ]
  /\ acct' = [ acct EXCEPT ![p] = NoSnapshots ]
  /\ effects' = Append(effects, Effect(req[p].tx, "Create"))
  /\ pc' = [ pc EXCEPT ![p] = "settle" ]
  /\ UNCHANGED << op, args, req, resp, result, settlement_queue, pair, clock, hsmVars, ussdVars, audit, ncalls, nfaults >>

\* A variant that goes on to the settlement queue after a failed commit.
CommitCreateFailsEnqueues(p) ==
  /\ pc[p] = "commit"
  /\ op[p] = "Create"
  /\ nfaults < MaxFaults
  /\ nfaults' = nfaults + 1
  /\ db' = AfterRollback(db, dbtx[p])
  /\ rowLock' = ReleaseLocks(p)
  /\ dbtx' = [ dbtx EXCEPT ![p] = EmptyTx ]
  /\ acct' = [ acct EXCEPT ![p] = NoSnapshots ]
  /\ pc' = [ pc EXCEPT ![p] = "settle" ]
  /\ audit' = audit \cup { LogError(req[p].tx.TxID, req[p].tx.CardID) }
  /\ UNCHANGED << op, args, req, resp, result, effects, settlement_queue, pair, clock, hsmVars, ussdVars, ncalls >>

\* dbTx.Commit() returns an error.
CommitCreateFails(p) ==
  /\ pc[p] = "commit"
  /\ op[p] = "Create"
  /\ nfaults < MaxFaults
  /\ nfaults' = nfaults + 1
  /\ db' = AfterRollback(db, dbtx[p])
  /\ rowLock' = ReleaseLocks(p)
  /\ dbtx' = [ dbtx EXCEPT ![p] = EmptyTx ]
  /\ acct' = [ acct EXCEPT ![p] = NoSnapshots ]
  /\ pc' = [ pc EXCEPT ![p] = "done" ]
  /\ result' = [ result EXCEPT ![p] = "Failed to process transaction" ]
  /\ audit' = audit \cup { LogError(req[p].tx.TxID, req[p].tx.CardID) }
  /\ UNCHANGED << op, args, req, resp, effects, settlement_queue, pair, clock, hsmVars, ussdVars, ncalls >>

\* queueForSettlement after the commit, then the 201 response.
Settle(p) ==
  /\ pc[p] = "settle"
  /\ settlement_queue' = Append(settlement_queue, req[p].tx.TxID)
  /\ pc' = [ pc EXCEPT ![p] = "done" ]
  /\ result' = [ result EXCEPT ![p] = "created" ]
  /\ UNCHANGED << db, rowLock, dbtx, op, args, acct, req, resp, effects, pair, clock, hsmVars, ussdVars, audit,
                  ncalls, nfaults >>

\* RPush returns an error: it is logged, the 201 response is written all the same.
SettleFails(p) ==
  /\ pc[p] = "settle"
  /\ nfaults < MaxFaults
  /\ nfaults' = nfaults + 1
  /\ pc' = [ pc EXCEPT ![p] = "done" ]
  /\ result' = [ result EXCEPT ![p] = "created" ]
  /\ UNCHANGED << db, rowLock, dbtx, op, args, acct, req, resp, effects,
                  settlement_queue, pair, clock, hsmVars, ussdVars, audit, ncalls >>

\* ---------------------------------------------------- BatchTransactions
StartBatch(p, items) ==
  /\ pc[p] \in {"idle", "done"}
  /\ ncalls < MaxRequests
  /\ Len(items) \in 1..100
  /\ ncalls' = ncalls + 1
  /\ op' = [ op EXCEPT ![p] = "Batch" ]
  /\ req' = [ req EXCEPT ![p] = [ tx |-> Head(items), rest |-> Tail(items),
                                   items |-> items ] ]
  /\ resp' = [ resp EXCEPT ![p] = NoResp ]
  /\ args' = [ args EXCEPT ![p] = NoArgs ]
  /\ result' = [ result EXCEPT ![p] = None ]
  /\ pc' = [ pc EXCEPT ![p] = "b_validate" ]
  /\ UNCHANGED << db, rowLock, dbtx, acct, effects, settlement_queue, pair, clock, hsmVars, ussdVars, audit, nfaults >>

\* One item: validateTransaction, verifySignature, checkDoubleSpending, then
\* processLedgerTransfer calls Transfer (db.Begin() and the PENDING state).
ValidateBatch(p) ==
  /\ pc[p] = "b_validate"
  /\ LET tx == req[p].tx IN
     IF validateTransaction(db, tx) # Nil
     THEN /\ BatchFailed(p, validateTransaction(db, tx))
          /\ UNCHANGED << args, dbtx >>
     ELSE IF verifySignature(tx) # Nil
     THEN /\ BatchFailed(p, "Signature verification failed")
          /\ UNCHANGED << args, dbtx >>
     ELSE IF checkDoubleSpending(db, tx) # Nil
     THEN /\ BatchFailed(p, "Double spending detected")
          /\ UNCHANGED << args, dbtx >>
     ELSE /\ pc' = [ pc EXCEPT ![p] = "lock1" ]
          /\ args' = [ args EXCEPT ![p] = [ from |-> tx.CardID, to |-> tx.MerchantID,
                                            id |-> tx.TxID, amount |-> tx.Amount ] ]
          /\ dbtx' = [ dbtx EXCEPT ![p] = appendPaymentState(EmptyTx, tx.TxID, "PENDING") ]
          /\ UNCHANGED << req, resp, result >>
  /\ UNCHANGED << db, rowLock, op, acct, effects, settlement_queue, pair, clock, hsmVars, ussdVars, audit, ncalls, nfaults >>

\* storeTransaction: the INSERT INTO transactions in its own transaction.
StoreBatch(p) ==
  /\ pc[p] = "b_store"
  /\ IF UniqueViolation(db, req[p].tx.TxID)
     THEN /\ BatchFailed(p, "Storage failed")
          /\ db' = db
     ELSE /\ ~UniqueWait(p, req[p].tx.TxID)
          /\ db' = [ db EXCEPT !.transactions = Append(@, TransactionRow(req[p].tx)) ]
          /\ BatchAdvance(p, Append(resp[p].processed, req[p].tx.TxID), resp[p].failed)
  /\ UNCHANGED << rowLock, dbtx, op, args, acct, effects, settlement_queue, pair, clock, hsmVars, ussdVars, audit,
                  ncalls, nfaults >>

\* ------------------------------------------------- ExternalBankTransfer
feePerMille == 5     \* feePercentage 0.5
feeFixed == 50
StatusWidth == 20    \* transactions.status VARCHAR(20)

calculateFee(amount) == (amount * feePerMille) \div 1000 + feeFixed

\* A variant of the total that leaves the fee out.
totalAmountWithoutFee(amount, fee) == amount

\* totalAmount := amount + fee
totalAmount(amount, fee) == amount + fee

\* WHERE account_id = $1 OR card_id = $1 LIMIT 1
ExtResolve(accountID) ==
  IF \E r \in AccountRows : r.account_id = accountID \/ r.card_id = accountID
  THEN (CHOOSE r \in AccountRows : r.account_id = accountID \/ r.card_id = accountID).id
  ELSE NoRow

\* The status column takes a value of at most StatusWidth characters.
StatusFits(status) ==
  LET length == CASE status = "PENDING" -> 7
                  [] status = "FAILED_ACCOUNT_NOT_FOUND" -> 24
                  [] status = "FAILED_ACCOUNT_NOT_ACTIVE" -> 25
                  [] status = "FAILED_INSUFFICIENT_BALANCE" -> 27
                  [] status = "FAILED_DEBIT_ERROR" -> 18
                  [] status = "FAILED_ISO_CONVERSION" -> 21
                  [] status = "FAILED_SETTLEMENT_ERROR" -> 23
  IN  length <= StatusWidth

\* The row the handler inserts, with the status of the path taken.
ExtRow(a, status) ==
  [ transaction_id |-> a.id, from_card_id |-> a.from, to_card_id |-> a.to,
    amount |-> a.amount, status |-> status, card_id |-> NULL, counter |-> NULL ]

\* The request passes ValidateStruct; txID is its reference.
StartExt(p, from, to, amount, reference) ==
  /\ pc[p] \in {"idle", "done"}
  /\ ncalls < MaxExternal
  /\ ncalls' = ncalls + 1
  /\ op' = [ op EXCEPT ![p] = "External" ]
  /\ args' = [ args EXCEPT ![p] =
                 [ from |-> from, to |-> to, id |-> reference, amount |-> amount ] ]
  /\ IF from = to
     THEN /\ pc' = [ pc EXCEPT ![p] = "done" ]
          /\ result' = [ result EXCEPT ![p] = "Cannot transfer to same account" ]
     ELSE /\ pc' = [ pc EXCEPT ![p] = "x_idem" ]
          /\ result' = [ result EXCEPT ![p] = None ]
  /\ UNCHANGED << db, rowLock, dbtx, acct, req, resp, effects, settlement_queue,
                  pair, clock, hsmVars, ussdVars, audit, nfaults >>

\* The duplicate lookup, then db.Begin().
ExtIdempotency(p) ==
  /\ pc[p] = "x_idem"
  /\ IF IdempotencyHit(db, args[p].id)
     THEN /\ pc' = [ pc EXCEPT ![p] = "done" ]
          /\ result' = [ result EXCEPT ![p] = "Transaction already processed" ]
     ELSE /\ pc' = [ pc EXCEPT ![p] = "x_lock" ]
          /\ result' = result
  /\ UNCHANGED << db, rowLock, dbtx, op, args, acct, req, resp, effects,
                  settlement_queue, pair, clock, hsmVars, ussdVars, audit, ncalls, nfaults >>

\* The duplicate lookup fails with a store error: the handler goes on to db.Begin().
ExtIdempotencyFails(p) ==
  /\ pc[p] = "x_idem"
  /\ nfaults < MaxFaults
  /\ nfaults' = nfaults + 1
  /\ pc' = [ pc EXCEPT ![p] = "x_lock" ]
  /\ UNCHANGED << db, rowLock, dbtx, op, args, acct, req, resp, result, effects,
                  settlement_queue, pair, clock, hsmVars, ussdVars, audit, ncalls >>

\* A failure path before the commit: the INSERT of the row with the failure
\* status (its error is dropped), tx.Commit(), the error response.  The INSERT
\* is refused when the status does not fit the column, when the identifier is
\* already there, or when an earlier statement of the transaction failed; the
\* commit of a transaction with a failed statement keeps none of its writes.
ExtFail(p, status, message, aborted) ==
  /\ ~UniqueWait(p, args[p].id)
  /\ db' = IF StatusFits(status) /\ ~aborted /\ ~UniqueViolation(db, args[p].id)
           THEN AfterCommit(db, [ dbtx[p] EXCEPT !.transactions =
                                    Append(@, ExtRow(args[p], status)) ])
           ELSE AfterRollback(db, dbtx[p])
  /\ rowLock' = ReleaseLocks(p)
  /\ dbtx' = [ dbtx EXCEPT ![p] = EmptyTx ]
  /\ acct' = [ acct EXCEPT ![p] = NoSnapshots ]
  /\ pc' = [ pc EXCEPT ![p] = "done" ]
  /\ result' = [ result EXCEPT ![p] = message ]
  /\ audit' = audit \cup { LogError(args[p].id, args[p].from) }
  /\ UNCHANGED << op, args, req, resp, effects, settlement_queue, pair, clock, hsmVars, ussdVars, ncalls >>

\* SELECT balance, status ... FOR UPDATE of the source, the status and balance
\* checks, and the UPDATE that debits amount + fee.  The UPDATE leaves the
\* version column alone.  With the row locked and the balance checked, its
\* guard balance >= total holds and it affects the row.
ExtDebit(p) ==
  /\ pc[p] = "x_lock"
  /\ LET row == ExtResolve(args[p].from)
         fee == calculateFee(args[p].amount)
         total == totalAmount(args[p].amount, fee)
     IN  IF row = NoRow
         THEN ExtFail(p, "FAILED_ACCOUNT_NOT_FOUND", "Source account not found", FALSE)
         ELSE /\ rowLock[row] \in {NoProc, p}
              /\ IF AccountStatus(row) # "ACTIVE"
                 THEN ExtFail(p, "FAILED_ACCOUNT_NOT_ACTIVE", "Source account not active", FALSE)
                 ELSE IF db.accounts[row].balance < total
                 THEN ExtFail(p, "FAILED_INSUFFICIENT_BALANCE", "Insufficient balance", FALSE)
                 ELSE /\ rowLock' = [ rowLock EXCEPT ![row] = p ]
                      /\ dbtx' = [ dbtx EXCEPT ![p].accounts =
                            Append(@, [ id |-> row,
                                        balance |-> db.accounts[row].balance - total,
                                        version |-> db.accounts[row].version ]) ]
                      /\ acct' = [ acct EXCEPT ![p].first =
                            [ ID |-> row, Balance |-> db.accounts[row].balance,
                              Version |-> db.accounts[row].version ] ]
                      /\ pc' = [ pc EXCEPT ![p] = "x_store" ]
                      /\ UNCHANGED << db, op, args, req, resp, result, effects,
                                      settlement_queue, pair, clock, hsmVars, ussdVars, audit, ncalls >>
  /\ UNCHANGED nfaults

\* The debiting UPDATE returns an error.
ExtDebitFails(p) ==
  /\ pc[p] = "x_lock"
  /\ nfaults < MaxFaults
  /\ LET row == ExtResolve(args[p].from) IN
       /\ row # NoRow
       /\ rowLock[row] \in {NoProc, p}
       /\ AccountStatus(row) = "ACTIVE"
       /\ db.accounts[row].balance
            >= totalAmount(args[p].amount, calculateFee(args[p].amount))
  /\ nfaults' = nfaults + 1
  /\ ExtFail(p, "FAILED_DEBIT_ERROR", "Failed to process transfer", TRUE)

\* The INSERT of the PENDING row inside the transaction.
ExtStore(p) ==
  /\ pc[p] = "x_store"
  /\ IF UniqueViolation(db, args[p].id)
     THEN /\ db' = AfterRollback(db, dbtx[p])
          /\ rowLock' = ReleaseLocks(p)
          /\ dbtx' = [ dbtx EXCEPT ![p] = EmptyTx ]
          /\ acct' = [ acct EXCEPT ![p] = NoSnapshots ]
          /\ pc' = [ pc EXCEPT ![p] = "done" ]
          /\ result' = [ result EXCEPT ![p] = "Failed to store transaction" ]
          /\ audit' = audit \cup { LogError(args[p].id, args[p].from) }
     ELSE /\ ~UniqueWait(p, args[p].id)
          /\ dbtx' = [ dbtx EXCEPT ![p].transactions =
                         Append(@, ExtRow(args[p], "PENDING")) ]
          /\ pc' = [ pc EXCEPT ![p] = "x_fee" ]
          /\ UNCHANGED << db, rowLock, acct, result, audit >>
  /\ UNCHANGED << op, args, req, resp, effects, settlement_queue, pair, clock, hsmVars, ussdVars, ncalls, nfaults >>

\* The UPDATE that credits the fee to the system fee account (it waits for the
\* row while another transaction has written it), then tx.Commit().
ExtFeeCommit(p) ==
  /\ pc[p] = "x_fee"
  /\ LET fee == calculateFee(args[p].amount)
         t == IF fee > 0
              THEN [ dbtx[p] EXCEPT !.accounts =
                       Append(@, [ id |-> RowFee,
                                   balance |-> TxView(db, dbtx[p])[RowFee].balance + fee,
                                   version |-> TxView(db, dbtx[p])[RowFee].version ]) ]
              ELSE dbtx[p]
     IN  /\ fee > 0 => rowLock[RowFee] \in {NoProc, p}
         /\ db' = AfterCommit(db, t)
         /\ audit' = IF fee > 0
                     THEN audit \cup { LogOperation(args[p].id, "0000000001", "FEE_CREDIT") }
                     ELSE audit
  /\ rowLock' = ReleaseLocks(p)
  /\ dbtx' = [ dbtx EXCEPT ![p] = EmptyTx ]
  /\ acct' = [ acct EXCEPT ![p] = NoSnapshots ]
  /\ pc' = [ pc EXCEPT ![p] = "x_send" ]
  /\ UNCHANGED << op, args, req, resp, result, effects, settlement_queue, pair, clock, hsmVars, ussdVars,
                  ncalls, nfaults >>

\* ConvertTransaction (it returns no error) and SendToSettlement succeed.
ExtSend(p) ==
  /\ pc[p] = "x_send"
  /\ pc' = [ pc EXCEPT ![p] = "done" ]
  /\ result' = [ result EXCEPT ![p] = "PENDING" ]
  /\ audit' = audit \cup { LogOperation(args[p].id, args[p].from, "ISO20022_SEND"),
                            LogTransfer(args[p].id, "PENDING") }
  /\ UNCHANGED << db, rowLock, dbtx, op, args, acct, req, resp, effects,
                  settlement_queue, pair, clock, hsmVars, ussdVars, ncalls, nfaults >>

\* SendToSettlement returns an error: UPDATE transactions SET status outside any
\* transaction (its error is dropped), then the error response.
ExtSendFails(p) ==
  /\ pc[p] = "x_send"
  /\ nfaults < MaxFaults
  /\ nfaults' = nfaults + 1
  /\ db' = IF StatusFits("FAILED_SETTLEMENT_ERROR")
           THEN [ db EXCEPT !.transactions =
                    [ i \in 1..Len(@) |->
                        IF @[i].transaction_id = args[p].id
                        THEN [ @[i] EXCEPT !.status = "FAILED_SETTLEMENT_ERROR" ]
                        ELSE @[i] ] ]
           ELSE db
  /\ pc' = [ pc EXCEPT ![p] = "done" ]
  /\ result' = [ result EXCEPT ![p] = "Failed to send to settlement" ]
  /\ audit' = audit \cup { LogOperation(args[p].id, args[p].from, "ISO20022_SEND"),
                            LogError(args[p].id, args[p].from) }
  /\ UNCHANGED << rowLock, dbtx, op, args, acct, req, resp, effects,
                  settlement_queue, pair, clock, hsmVars, ussdVars, ncalls >>

\* ------------------------------------------------------------ key service
\* InitHSM over the directory store: loadKeys, then generateDefaultKeys (three
\* GenerateKeyPair calls) when no key was loaded.
InitHSM(store, n, now) ==
  LET loaded == loadKeys(store)
      k1 == generateKeyPairInternal(card_signing, n + 1, now)
      k2 == generateKeyPairInternal(transaction_signing, n + 2, now)
      k3 == generateKeyPairInternal(user_encryption, n + 3, now)
  IN  IF DOMAIN loaded # {}
      THEN [ keys |-> loaded, keyStore |-> store, nkeys |-> n ]
      ELSE [ keys |-> Put(Put(Put(EmptyMap, k1.ID, k1), k2.ID, k2), k3.ID, k3),
             keyStore |-> Put(Put(Put(store, KeyPath(k1.ID), k1), KeyPath(k2.ID), k2),
                              KeyPath(k3.ID), k3),
             nkeys |-> n + 3 ]

\* h.mu is held from the first to the last step of RotateKeys; every other
\* method holds it for its one step.
MuHeld == \E q \in Procs : pc[q] = "h_rotate"

\* A caller invokes a method and reaches h.mu.Lock() / h.mu.RLock().
HsmCall(p, method, a) ==
  /\ pc[p] \in {"idle", "done"}
  /\ ncalls < MaxHsmCalls
  /\ ncalls' = ncalls + 1
  /\ op' = [ op EXCEPT ![p] = method ]
  /\ args' = [ args EXCEPT ![p] = [ call |-> ncalls + 1, keyID |-> a.keyID,
                                    data |-> a.data, signature |-> a.signature,
                                    overlap |-> {} ] ]
  /\ result' = [ result EXCEPT ![p] = None ]
  /\ pc' = [ pc EXCEPT ![p] = "h_wait" ]
  /\ UNCHANGED << ledgerVars, audit, nfaults, clock, hsmVars, ussdVars >>

\* The method of p gets the mutex.
HsmRuns(p, method) == pc[p] = "h_wait" /\ op[p] = method /\ ~MuHeld

HsmReturns(p, r) ==
  /\ pc' = [ pc EXCEPT ![p] = "done" ]
  /\ result' = [ result EXCEPT ![p] = r ]

\* The calls of GenerateKeyPair for the same identifier that wait for the mutex
\* while the call of p runs (history, kept with the call).
Overlap(p) ==
  { args[q].call : q \in { q \in Procs \ {p} :
       pc[q] = "h_wait" /\ op[q] = "GenerateKeyPair" /\ args[q].keyID = args[p].keyID } }

\* A variant without the test for an existing identifier.
GenerateKeyPairOverwrites(p) ==
  /\ HsmRuns(p, "GenerateKeyPair")
  /\ args' = [ args EXCEPT ![p].overlap = Overlap(p) ]
  /\ LET keyID == args[p].keyID
         keyPair == generateKeyPairInternal(keyID, nkeys + 1, clock)
     IN  IF validateKeyID(keyID) # Nil
         THEN /\ HsmReturns(p, "invalid key ID")
              /\ UNCHANGED << hsmVars, audit >>
         ELSE /\ nkeys < MaxKeys
              /\ nkeys' = nkeys + 1
              /\ keys' = Put(keys, keyID, keyPair)
              /\ keyStore' = Put(keyStore, KeyPath(keyID), keyPair)
              /\ audit' = audit \cup { LogTransfer("KEY_GENERATED", "New key pair generated") }
              /\ HsmReturns(p, Nil)
              /\ UNCHANGED signatures
  /\ UNCHANGED << ledgerVars, op, ncalls, nfaults, clock, ussdVars >>

GenerateKeyPair(p) ==
  /\ HsmRuns(p, "GenerateKeyPair")
  /\ args' = [ args EXCEPT ![p].overlap = Overlap(p) ]
  /\ LET keyID == args[p].keyID
         keyPair == generateKeyPairInternal(keyID, nkeys + 1, clock)
     IN  IF validateKeyID(keyID) # Nil
         THEN /\ HsmReturns(p, "invalid key ID")
              /\ UNCHANGED << hsmVars, audit >>
         ELSE IF keyID \in DOMAIN keys
         THEN /\ HsmReturns(p, "key already exists")
              /\ UNCHANGED << hsmVars, audit >>
         ELSE /\ nkeys < MaxKeys
              /\ nkeys' = nkeys + 1
              /\ keys' = Put(keys, keyID, keyPair)
              /\ keyStore' = Put(keyStore, KeyPath(keyID), keyPair)
              /\ audit' = audit \cup { LogTransfer("KEY_GENERATED", "New key pair generated") }
              /\ HsmReturns(p, Nil)
              /\ UNCHANGED signatures
  /\ UNCHANGED << ledgerVars, op, ncalls, nfaults, clock, ussdVars >>

\* saveKeyToDisk returns the error of os.WriteFile: the key is taken out of the
\* registry again.
GenerateKeyPairSaveFails(p) ==
  /\ HsmRuns(p, "GenerateKeyPair")
  /\ validateKeyID(args[p].keyID) = Nil
  /\ args[p].keyID \notin DOMAIN keys
  /\ nkeys < MaxKeys
  /\ nfaults < MaxFaults
  /\ nfaults' = nfaults + 1
  /\ nkeys' = nkeys + 1
  /\ keys' = Remove(Put(keys, args[p].keyID,
                        generateKeyPairInternal(args[p].keyID, nkeys + 1, clock)),
                    args[p].keyID)
  /\ args' = [ args EXCEPT ![p].overlap = Overlap(p) ]
  /\ HsmReturns(p, "failed to save key to disk")
  /\ UNCHANGED << ledgerVars, op, ncalls, audit, clock, keyStore, signatures, ussdVars >>

\* SignData: the returned signature is kept with the call.
SignData(p) ==
  /\ HsmRuns(p, "SignData")
  /\ LET keyID == args[p].keyID IN
     IF keyID \notin DOMAIN keys
     THEN /\ HsmReturns(p, "key not found")
          /\ UNCHANGED << args, signatures >>
     ELSE IF ~keys[keyID].IsActive
     THEN /\ HsmReturns(p, "key is not active")
          /\ UNCHANGED << args, signatures >>
     ELSE LET sig == SignPKCS1v15(keys[keyID].Key, args[p].data) IN
          /\ args' = [ args EXCEPT ![p].signature = sig ]
          /\ signatures' = signatures \cup
               { [ keyID |-> keyID, key |-> keys[keyID].Key, data |-> args[p].data,
                   signature |-> sig ] }
          /\ HsmReturns(p, Nil)
  /\ UNCHANGED << ledgerVars, op, ncalls, nfaults, audit, clock, keys, keyStore, nkeys,
                  ussdVars >>

\* A variant that refuses an inactive key, as GetPublicKey does.
VerifySignatureActiveOnly(p) ==
  /\ HsmRuns(p, "VerifySignature")
  /\ LET keyID == args[p].keyID IN
     IF keyID \notin DOMAIN keys
     THEN HsmReturns(p, "key not found")
     ELSE IF ~keys[keyID].IsActive
     THEN HsmReturns(p, "key is not active")
     ELSE IF VerifyPKCS1v15(keys[keyID].Key, args[p].data, args[p].signature)
     THEN HsmReturns(p, "true")
     ELSE HsmReturns(p, "false")
  /\ UNCHANGED << ledgerVars, op, args, ncalls, nfaults, audit, clock, hsmVars, ussdVars >>

VerifySignature(p) ==
  /\ HsmRuns(p, "VerifySignature")
  /\ LET keyID == args[p].keyID IN
     IF keyID \notin DOMAIN keys
     THEN HsmReturns(p, "key not found")
     ELSE IF VerifyPKCS1v15(keys[keyID].Key, args[p].data, args[p].signature)
     THEN HsmReturns(p, "true")
     ELSE HsmReturns(p, "false")
  /\ UNCHANGED << ledgerVars, op, args, ncalls, nfaults, audit, clock, hsmVars, ussdVars >>

\* RotateKeys takes the mutex and starts ranging over h.keys.  A key that is
\* active and unexpired now is so when the loop visits it, whether it is the
\* same key or one the loop has put in its place, and so is every key the loop
\* adds: only the other keys are kept to be visited.
RotateKeys(p) ==
  /\ HsmRuns(p, "RotateKeys")
  /\ nkeys + Cardinality(DOMAIN keys) <= MaxKeys
  /\ args' = [ args EXCEPT ![p] =
                 [ call |-> @.call, now |-> clock,
                   todo |-> { k \in DOMAIN keys : DueForRotation(keys[k], clock) },
                   before |-> keys ] ]
  /\ pc' = [ pc EXCEPT ![p] = "h_rotate" ]
  /\ UNCHANGED << ledgerVars, op, result, ncalls, nfaults, audit, clock, hsmVars,
                  ussdVars >>

\* The identifier is, or gets in this loop, the new identifier of another key.
Collides(keyID, now) ==
  \E k \in DOMAIN keys : newKeyID(k, now) = keyID \/ newKeyID(keyID, now) = k

\* One pass of the loop, over any key not yet visited (the order of a range
\* over a map is not fixed): a key that is expired or inactive is marked
\* inactive and a new key is registered under its identifier, "_" and now.
\* The order matters only between keys whose identifiers collide: the others
\* are taken in one order.
RotateOne(p) ==
  /\ pc[p] = "h_rotate"
  /\ \E keyID \in args[p].todo :
       LET keyPair == keys[keyID]
           now == args[p].now
           id == newKeyID(keyID, now)
           free == { k \in args[p].todo : ~Collides(k, now) }
       IN  /\ IF Collides(keyID, now) THEN TRUE ELSE keyID = CHOOSE k \in free : TRUE
           /\ args' = [ args EXCEPT ![p].todo = @ \ {keyID} ]
           /\ IF DueForRotation(keyPair, now)
              THEN /\ keys' = Put(Put(keys, keyID, [ keyPair EXCEPT !.IsActive = FALSE ]),
                                  id, generateKeyPairInternal(id, nkeys + 1, now))
                   /\ nkeys' = nkeys + 1
                   /\ audit' = audit \cup { LogTransfer("KEY_ROTATED", "Key rotated") }
              ELSE UNCHANGED << keys, nkeys, audit >>
  /\ UNCHANGED << ledgerVars, pc, op, result, ncalls, nfaults, clock, keyStore,
                  signatures, ussdVars >>

\* The loop is over: RotateKeys returns nil.
RotateDone(p) ==
  /\ pc[p] = "h_rotate"
  /\ args[p].todo = {}
  /\ audit' = audit \cup { LogTransfer("KEY_ROTATION_COMPLETE", "Key rotation complete") }
  /\ HsmReturns(p, Nil)
  /\ UNCHANGED << ledgerVars, op, args, ncalls, nfaults, clock, hsmVars, ussdVars >>

\* DeleteKey: out of the registry, then out of the directory (os.Remove of a
\* file that does not exist is not an error).
DeleteKey(p) ==
  /\ HsmRuns(p, "DeleteKey")
  /\ LET keyID == args[p].keyID IN
     IF keyID \notin DOMAIN keys
     THEN /\ HsmReturns(p, "key not found")
          /\ UNCHANGED << keys, keyStore, audit >>
     ELSE IF validateKeyID(keyID) # Nil
     THEN /\ keys' = Remove(keys, keyID)
          /\ HsmReturns(p, "invalid key ID")
          /\ UNCHANGED << keyStore, audit >>
     ELSE /\ keys' = Remove(keys, keyID)
          /\ keyStore' = Remove(keyStore, KeyPath(keyID))
          /\ audit' = audit \cup { LogTransfer("KEY_DELETED", "Key deleted from HSM") }
          /\ HsmReturns(p, Nil)
  /\ UNCHANGED << ledgerVars, op, args, ncalls, nfaults, clock, signatures, nkeys,
                  ussdVars >>

\* The service is started again on the same directory with the same master
\* key and salt: a new HSMServer, no call in progress.
Restart ==
  /\ \A p \in Procs : pc[p] \in {"idle", "done"}
  /\ ncalls < MaxHsmCalls
  /\ ncalls' = ncalls + 1
  /\ LET h == InitHSM(keyStore, nkeys, clock) IN
       /\ h.nkeys <= MaxKeys
       /\ keys' = h.keys
       /\ keyStore' = h.keyStore
       /\ nkeys' = h.nkeys
       /\ audit' = audit \cup
            ( { LogTransfer("HSM_INIT", "HSM initialized successfully") } \cup
              IF h.nkeys # nkeys
              THEN { LogTransfer("KEY_GENERATED", "New key pair generated") }
              ELSE {} )
  /\ UNCHANGED << ledgerVars, pc, op, args, result, nfaults, clock, signatures, ussdVars >>

\* A second passes.
Tick ==
  /\ clock < MaxTime
  /\ ~MuHeld
  /\ clock' = clock + 1
  /\ UNCHANGED << ledgerVars, pc, op, args, result, audit, ncalls, nfaults, hsmVars,
                  ussdVars >>

\* ------------------------------------------------------------ USSD codes
\* LoadUSSDConfig. Time is counted in units of the default CodeTimeout (five
\* minutes); the window and the limit are scaled down.
CodeTimeout == 1
RateLimitWindow == 2
MaxGenerationPerUser == 1
\* The 24 hours of CleanupExpiredCodes, in the same unit.
UsedRetention == 288
MaxUssdCalls == 3
MaxUssdTime == 2

CodeTypes == {"PUSH", "PULL"}

\* hashCode: iterated SHA-256, taken as injective.
hashCode(code) == << "sha256", code >>

\* redis GET of the counter of a user: a key past its expiry is gone, and a
\* missing key reads as 0.
Get(user) ==
  IF user \in DOMAIN ratelimit /\ clock < ratelimit[user].expireAt
  THEN ratelimit[user].value
  ELSE 0

checkRateLimit(user) ==
  IF Get(user) >= MaxGenerationPerUser THEN "rate limit exceeded" ELSE Nil

\* A variant of the row lock that never makes a transaction wait.
NeverLocked(transactionID) == FALSE

\* The row is locked by a transaction that selected it FOR UPDATE and has not
\* ended.
Locked(transactionID) ==
  \E q \in Procs : pc[q] = "v_update" /\ args[q].transactionID = transactionID

\* A request reaches generateCode or ValidateAndConsume; start is the time of
\* the call (history).
UssdCall(p, method, a) ==
  /\ pc[p] \in {"idle", "done"}
  /\ ncalls < MaxUssdCalls
  /\ ncalls' = ncalls + 1
  /\ op' = [ op EXCEPT ![p] = method ]
  /\ args' = [ args EXCEPT ![p] = [ call |-> ncalls + 1, userID |-> a.userID,
                                    code |-> a.code, codeType |-> a.codeType,
                                    start |-> clock, transactionID |-> 0 ] ]
  /\ result' = [ result EXCEPT ![p] = None ]
  /\ pc' = [ pc EXCEPT ![p] = "u_start" ]
  /\ UNCHANGED << ledgerVars, audit, nfaults, clock, hsmVars, ussdVars >>

\* generateCode up to the check of the rate limit.
generateCode(p) ==
  /\ pc[p] = "u_start" /\ op[p] = "generateCode"
  /\ IF checkRateLimit(args[p].userID) # Nil
     THEN /\ pc' = [ pc EXCEPT ![p] = "done" ]
          /\ result' = [ result EXCEPT ![p] = checkRateLimit(args[p].userID) ]
     ELSE /\ pc' = [ pc EXCEPT ![p] = "g_insert" ]
          /\ UNCHANGED result
  /\ UNCHANGED << ledgerVars, op, args, audit, ncalls, nfaults, clock, hsmVars, ussdVars >>

\* generateSecureCode draws the code; the INSERT fails on a code_hash that is
\* stored already (UNIQUE). The transaction id is new with every call.
generateCodeInsert(p, code) ==
  /\ pc[p] = "g_insert"
  /\ IF \E r \in ussd_codes : r.code_hash = hashCode(code)
     THEN /\ pc' = [ pc EXCEPT ![p] = "done" ]
          /\ result' = [ result EXCEPT ![p] = "failed to store code" ]
          /\ UNCHANGED << args, ussd_codes >>
     ELSE /\ ussd_codes' = ussd_codes \cup
               { [ transaction_id |-> args[p].call, code_hash |-> hashCode(code),
                   code_type |-> args[p].codeType, user_id |-> args[p].userID,
                   expires_at |-> clock + CodeTimeout, used |-> FALSE,
                   used_at |-> -1 ] }
          /\ args' = [ args EXCEPT ![p].code = code, ![p].transactionID = args[p].call ]
          /\ pc' = [ pc EXCEPT ![p] = "g_incr" ]
          /\ UNCHANGED result
  /\ UNCHANGED << ledgerVars, op, audit, ncalls, nfaults, clock, hsmVars, ratelimit, issued, qr >>

\* incrementRateLimit (INCR and EXPIRE in one pipeline), then the code is
\* returned to the user.
incrementRateLimit(p) ==
  /\ pc[p] = "g_incr"
  /\ ratelimit' = Put(ratelimit, args[p].userID,
                      [ value |-> Get(args[p].userID) + 1,
                        expireAt |-> clock + RateLimitWindow ])
  /\ issued' = issued \cup { [ transaction_id |-> args[p].transactionID,
                               user_id |-> args[p].userID, at |-> clock ] }
  /\ pc' = [ pc EXCEPT ![p] = "done" ]
  /\ result' = [ result EXCEPT ![p] = args[p].code ]
  /\ UNCHANGED << ledgerVars, op, args, audit, ncalls, nfaults, clock, hsmVars, ussd_codes, qr >>

\* ValidateAndConsume up to the check of the expiry: SELECT ... FOR UPDATE
\* waits for the lock of the row.
ValidateAndConsume(p) ==
  /\ pc[p] = "u_start" /\ op[p] = "ValidateAndConsume"
  /\ LET rows == { r \in ussd_codes : /\ r.code_hash = hashCode(args[p].code)
                                      /\ r.code_type = args[p].codeType }
     IN  IF rows = {}
         THEN /\ pc' = [ pc EXCEPT ![p] = "done" ]
              /\ result' = [ result EXCEPT ![p] = "invalid code" ]
              /\ UNCHANGED args
         ELSE LET row == CHOOSE r \in rows : TRUE IN
              /\ ~Locked(row.transaction_id)
              /\ IF row.used
                 THEN /\ pc' = [ pc EXCEPT ![p] = "done" ]
                      /\ result' = [ result EXCEPT ![p] = "code already used" ]
                      /\ UNCHANGED args
                 ELSE IF clock > row.expires_at
                 THEN /\ pc' = [ pc EXCEPT ![p] = "done" ]
                      /\ result' = [ result EXCEPT ![p] = "code expired" ]
                      /\ UNCHANGED args
                 ELSE /\ pc' = [ pc EXCEPT ![p] = "v_update" ]
                      /\ args' = [ args EXCEPT ![p].transactionID = row.transaction_id ]
                      /\ UNCHANGED result
  /\ UNCHANGED << ledgerVars, op, audit, ncalls, nfaults, clock, hsmVars, ussdVars >>

\* UPDATE ... WHERE code_hash = $2 and Commit.
ValidateAndConsumeCommit(p) ==
  /\ pc[p] = "v_update"
  /\ ussd_codes' = { IF r.code_hash = hashCode(args[p].code)
                     THEN [ r EXCEPT !.used = TRUE, !.used_at = clock ]
                     ELSE r : r \in ussd_codes }
  /\ pc' = [ pc EXCEPT ![p] = "done" ]
  /\ result' = [ result EXCEPT ![p] = "ok" ]
  /\ UNCHANGED << ledgerVars, op, args, audit, ncalls, nfaults, clock, hsmVars,
                  ratelimit, issued, qr >>

\* The UPDATE or the Commit returns an error: the deferred Rollback ends the
\* transaction.
ValidateAndConsumeCommitFails(p) ==
  /\ pc[p] = "v_update"
  /\ nfaults < MaxFaults
  /\ nfaults' = nfaults + 1
  /\ pc' = [ pc EXCEPT ![p] = "done" ]
  /\ result' = [ result EXCEPT ![p] = "commit failed" ]
  /\ UNCHANGED << ledgerVars, op, args, audit, ncalls, clock, hsmVars, ussdVars >>

\* CleanupExpiredCodes: the DELETE waits for the locks of the rows it removes.
CleanupExpiredCodes ==
  LET old == { r \in ussd_codes :
                 \/ r.expires_at < clock
                 \/ (r.used /\ r.used_at < clock - UsedRetention) }
  IN  /\ old # {}
      /\ \A r \in old : ~Locked(r.transaction_id)
      /\ ussd_codes' = ussd_codes \ old
      /\ UNCHANGED << ledgerVars, pc, op, args, result, audit, ncalls, nfaults, clock,
                      hsmVars, ratelimit, issued, qr >>

\* -------------------------------------------------------------- QR codes
\* The five minutes of the Redis key "qr:<code>", the unit of time here.
QrTimeout == 1
MaxQrCalls == 3
MaxQrTime == 2

NoQrData == [ userId |-> "", amount |-> 0, timestamp |-> 0, nonce |-> 0 ]

\* redis GET finds the key: it was set, not deleted, and has not expired.
QrStored(code) == code \in DOMAIN qr /\ clock < qr[code].expireAt

\* A request reaches GenerateQRCode or ProcessQRCode; start is the time of the
\* call (history).
QrCall(p, method, a) ==
  /\ pc[p] \in {"idle", "done"}
  /\ ncalls < MaxQrCalls
  /\ ncalls' = ncalls + 1
  /\ op' = [ op EXCEPT ![p] = method ]
  /\ args' = [ args EXCEPT ![p] = [ call |-> ncalls + 1, userID |-> a.userID,
                                    amount |-> a.amount, code |-> a.code,
                                    data |-> NoQrData, start |-> clock ] ]
  /\ result' = [ result EXCEPT ![p] = None ]
  /\ pc' = [ pc EXCEPT ![p] = "q_start" ]
  /\ UNCHANGED << ledgerVars, audit, nfaults, clock, hsmVars, ussdVars >>

\* GenerateQRCode: the code is the encoding of the payment data, which holds a
\* random nonce (here the number of the call); the code stands for its data.
GenerateQRCode(p) ==
  /\ pc[p] = "q_start" /\ op[p] = "GenerateQRCode"
  /\ LET qrData == [ userId |-> args[p].userID, amount |-> args[p].amount,
                     timestamp |-> clock, nonce |-> args[p].call ]
     IN  /\ qr' = Put(qr, qrData, [ data |-> qrData, expireAt |-> clock + QrTimeout ])
         /\ args' = [ args EXCEPT ![p].code = qrData ]
  /\ pc' = [ pc EXCEPT ![p] = "done" ]
  /\ result' = [ result EXCEPT ![p] = Nil ]
  /\ UNCHANGED << ledgerVars, op, audit, ncalls, nfaults, clock, hsmVars,
                  ussd_codes, ratelimit, issued >>

\* ProcessQRCode up to the GET of the key.
ProcessQRCode(p) ==
  /\ pc[p] = "q_start" /\ op[p] = "ProcessQRCode"
  /\ IF ~QrStored(args[p].code)
     THEN /\ pc' = [ pc EXCEPT ![p] = "done" ]
          /\ result' = [ result EXCEPT ![p] = "invalid or expired QR code" ]
          /\ UNCHANGED args
     ELSE /\ pc' = [ pc EXCEPT ![p] = "q_del" ]
          /\ args' = [ args EXCEPT ![p].data = qr[args[p].code].data ]
          /\ UNCHANGED result
  /\ UNCHANGED << ledgerVars, op, audit, ncalls, nfaults, clock, hsmVars, ussdVars >>

\* The DEL of the key, and the payment data is returned.
ProcessQRCodeDel(p) ==
  /\ pc[p] = "q_del"
  /\ qr' = Remove(qr, args[p].code)
  /\ pc' = [ pc EXCEPT ![p] = "done" ]
  /\ result' = [ result EXCEPT ![p] = Nil ]
  /\ UNCHANGED << ledgerVars, op, args, audit, ncalls, nfaults, clock, hsmVars,
                  ussd_codes, ratelimit, issued >>

\* ------------------------------------------------------ specifications
TxIDs == {"tx1", "tx2"}
Amounts == 1..MaxAmount

LedgerIdents == {"1234567890", "2345678901", "card_001", "card_999"}

\* Any sequence of direct ledger transfers, with store failures.
NextLedger ==
  \E p \in Procs :
    \/ \E from \in LedgerIdents, to \in LedgerIdents, id \in TxIDs, amount \in Amounts :
         StartTransfer(p, from, to, id, amount)
    \/ LockFirst(p)
    \/ LockSecond(p)
    \/ TransferBody(p)
    \/ LedgerInsertFails(p)
    \/ CommitTransfer(p)
    \/ CommitTransferFails(p)

SpecLedger == Init /\ [][NextLedger]_vars

\* The transactions a client submits.
TopCounter == 2
TxFields ==
  [ Version : {1}, TxID : TxIDs, Timestamp : {Now}, CardID : {"card_001"},
    MerchantID : {"card_002"}, Amount : Amounts, Currency : {"NGN"},
    Counter : 1..TopCounter, TxType : {"DEBIT"} ]

\* The request with the signature a holder of key computes for it.
Signed(tx, key) ==
  [ f \in DOMAIN tx \cup {"Signature"} |->
      IF f = "Signature" THEN HmacSha256Hex(key, serializeTransaction(tx)) ELSE tx[f] ]

\* Each request signed with the card's key, and signed with another key.
TxInputs ==
  { Signed(tx, key) : tx \in TxFields,
                      key \in { << "cak", "card_001" >>, << "cak", "card_002" >> } }

\* The items of a batch: the inputs of the smallest amount, one of them
\* with a signature that does not verify.
BatchItems ==
  { tx \in TxInputs :
      tx.Amount = 1 /\ (verifySignature(tx) = Nil \/ (tx.TxID = "tx1" /\ tx.Counter = 1)) }
BatchInputs == UNION { [1..n -> BatchItems] : n \in 1..MaxBatch }

LedgerSteps(p) ==
  \/ LockFirst(p)
  \/ LockSecond(p)
  \/ TransferBody(p)

\* Single-transaction requests only.
NextCreate ==
  \E p \in Procs :
    \/ \E tx \in TxInputs : StartCreate(p, tx)
    \/ Idempotency(p)
    \/ IdempotencyFails(p)
    \/ ValidateCreate(p)
    \/ LedgerSteps(p)
    \/ StoreCreate(p)
    \/ CommitCreate(p)
    \/ CommitCreateFails(p)
    \/ Settle(p)
    \/ SettleFails(p)

SpecCreate == Init /\ [][NextCreate]_vars

\* Single-transaction and batch requests.
NextTxn ==
  \E p \in Procs :
    \/ \E tx \in BatchItems : StartCreate(p, tx)
    \/ \E items \in BatchInputs : StartBatch(p, items)
    \/ Idempotency(p)
    \/ ValidateCreate(p)
    \/ ValidateBatch(p)
    \/ LedgerSteps(p)
    \/ StoreCreate(p)
    \/ CommitCreate(p)
    \/ CommitTransfer(p)
    \/ StoreBatch(p)
    \/ Settle(p)

SpecTxn == Init /\ [][NextTxn]_vars

\* Single-transaction requests with timestamps around the edges of the windows.
Timestamps ==
  { Now - 86400 * 7 - 1, Now - 86400 * 7, Now - 301, Now - 300, Now,
    Now + 30, Now + 31, Now + 60, Now + 61 }

TimedInputs ==
  { Signed([ tx EXCEPT !.Timestamp = ts ], << "cak", "card_001" >>) :
      tx \in { t \in TxFields : t.Amount = 1 /\ t.Counter = 1 }, ts \in Timestamps }

NextTime ==
  \E p \in Procs :
    \/ \E tx \in TimedInputs : StartCreate(p, tx)
    \/ Idempotency(p)
    \/ ValidateCreate(p)
    \/ LedgerSteps(p)
    \/ StoreCreate(p)
    \/ CommitCreate(p)
    \/ Settle(p)

SpecTime == Init /\ [][NextTime]_vars

\* verifySignature applied to a signed request and to the same request with
\* one field changed and the signature kept.
TamperValues ==
  [ Version |-> 0..2, TxID |-> {"tx", "tx1", "tx2"},
    Timestamp |-> {Now, Now + 1, Now + 256},
    CardID |-> {"card_001", "card_002", "card_00"},
    MerchantID |-> {"card_002", "1card_002", "card_001"},
    Amount |-> 1..(MaxAmount + 1), Currency |-> {"NGN", "USD"},
    Counter |-> 1..(TopCounter + 1), TxType |-> {"DEBIT", "CREDIT"} ]

InitSig ==
  /\ db = InitDB
  /\ rowLock = [ r \in RowIds |-> NoProc ]
  /\ dbtx = [ p \in Workers |-> EmptyTx ]
  /\ pc = [ p \in Workers |-> IF p \in Procs THEN "signed" ELSE "idle" ]
  /\ op = [ p \in Workers |-> None ]
  /\ args = [ p \in Workers |-> NoArgs ]
  /\ acct = [ p \in Workers |-> NoSnapshots ]
  /\ \E f \in [ Procs -> { Signed(tx, << "cak", tx.CardID >>) : tx \in TxFields } ] :
       req = [ p \in Workers |->
                 IF p \in Procs THEN [ tx |-> f[p], rest |-> << >>, items |-> << f[p] >> ]
                 ELSE NoReq ]
  /\ resp = [ p \in Workers |-> NoResp ]
  /\ result = [ p \in Workers |-> None ]
  /\ effects = << >>
  /\ settlement_queue = << >>
  /\ pair = << >>
  /\ audit = {}
  /\ NoHsm
  /\ NoUssd
  /\ ncalls = 0
  /\ nfaults = 0

\* One authenticated field of the request is changed to another value.
Tamper(p, field, value) ==
  /\ pc[p] = "signed"
  /\ value # req[p].tx[field]
  /\ req' = [ req EXCEPT ![p].tx[field] = value ]
  /\ pc' = [ pc EXCEPT ![p] = "tampered" ]
  /\ UNCHANGED << db, rowLock, dbtx, op, args, acct, resp, result, effects,
                  settlement_queue, pair, clock, hsmVars, ussdVars, audit, ncalls, nfaults >>

VerifySig(p) ==
  /\ pc[p] \in {"signed", "tampered"}
  /\ result' = [ result EXCEPT ![p] = verifySignature(req[p].tx) ]
  /\ pc' = [ pc EXCEPT ![p] = IF pc[p] = "signed" THEN "verified original"
                                ELSE "verified tampered" ]
  /\ UNCHANGED << db, rowLock, dbtx, op, args, acct, req, resp, effects,
                  settlement_queue, pair, clock, hsmVars, ussdVars, audit, ncalls, nfaults >>

NextSig ==
  \E p \in Procs :
    \/ \E field \in DOMAIN TamperValues :
         \E value \in TamperValues[field] : Tamper(p, field, value)
    \/ VerifySig(p)

SpecSig == InitSig /\ [][NextSig]_vars

\* A request with any number of its authenticated fields changed: a second
\* and further fields of an already changed request are changed.
TamperAgain(p, field, value) ==
  /\ pc[p] = "tampered"
  /\ value # req[p].tx[field]
  /\ req' = [ req EXCEPT ![p].tx[field] = value ]
  /\ UNCHANGED << db, rowLock, dbtx, pc, op, args, acct, resp, result, effects,
                  settlement_queue, pair, clock, hsmVars, ussdVars, audit, ncalls, nfaults >>

\* The fields changed together: the two adjacent strings and the identifier.
MovedFields == {"TxID", "CardID", "MerchantID"}

NextSer ==
  \E p \in Procs :
    \/ \E field \in MovedFields :
         \E value \in TamperValues[field] :
           \/ Tamper(p, field, value)
           \/ TamperAgain(p, field, value)
    \/ VerifySig(p)

SpecSer == InitSig /\ [][NextSer]_vars

\* External bank transfers on the seeded balances.
ExtSources == {"1234567890", "2345678901", "0000000001", "9999999999"}
ExtAmounts == {101, 15000}
ExtRefs == {"ref1", "ref2", "ref3"}

InitExt ==
  /\ db = [ InitDB EXCEPT !.accounts[RowA].balance = 15420,
                          !.accounts[RowB].balance = 8750 ]
  /\ rowLock = [ r \in RowIds |-> NoProc ]
  /\ dbtx = [ p \in Workers |-> EmptyTx ]
  /\ pc = [ p \in Workers |-> "idle" ]
  /\ op = [ p \in Workers |-> None ]
  /\ args = [ p \in Workers |-> NoArgs ]
  /\ acct = [ p \in Workers |-> NoSnapshots ]
  /\ req = [ p \in Workers |-> NoReq ]
  /\ resp = [ p \in Workers |-> NoResp ]
  /\ result = [ p \in Workers |-> None ]
  /\ effects = << >>
  /\ settlement_queue = << >>
  /\ pair = << >>
  /\ audit = {}
  /\ NoHsm
  /\ NoUssd
  /\ ncalls = 0
  /\ nfaults = 0

NextExt ==
  \E p \in Procs :
    \/ \E from \in ExtSources, amount \in ExtAmounts, reference \in ExtRefs :
         StartExt(p, from, "5550001111", amount, reference)
    \/ ExtIdempotency(p)
    \/ ExtIdempotencyFails(p)
    \/ ExtDebit(p)
    \/ ExtDebitFails(p)
    \/ ExtStore(p)
    \/ ExtFeeCommit(p)
    \/ ExtSend(p)
    \/ ExtSendFails(p)

SpecExt == InitExt /\ [][NextExt]_vars

\* External transfers from an account next to ledger transfers between that
\* account and the system fee account.
MixIdents == {"1234567890", "0000000001"}

NextMix ==
  \E p \in Procs :
    \/ \E reference \in ExtRefs : StartExt(p, "1234567890", "5550001111", 101, reference)
    \/ ExtIdempotency(p)
    \/ ExtDebit(p)
    \/ ExtStore(p)
    \/ ExtFeeCommit(p)
    \/ ExtSend(p)
    \/ \E from \in MixIdents, to \in MixIdents, id \in TxIDs :
         StartTransfer(p, from, to, id, 1)
    \/ LockFirst(p)
    \/ LockSecond(p)
    \/ TransferBody(p)
    \/ CommitTransfer(p)

SpecMix == InitExt /\ [][NextMix]_vars

\* Both copies of the ledger service.
RowIdents == {"3", "4"}

NextLedgerBoth ==
  \/ NextLedger
  \/ \E p \in Procs :
       \/ \E from \in RowIdents, to \in RowIdents, id \in TxIDs, amount \in Amounts :
            StartTransfer013(p, from, to, id, amount)
       \/ TransferBody013(p)

SpecLedgerBoth == Init /\ [][NextLedgerBoth]_vars

\* NumRacers concurrent transfers that all debit the first account.
NextRace ==
  \E p \in Racers :
    \/ \E from \in Aliases(RowA) \cap LedgerIdents, to \in Aliases(RowB) \cap LedgerIdents,
          amount \in Amounts : StartRace(p, from, to, "tx1", amount)
    \/ LockFirst(p)
    \/ LockSecond(p)
    \/ TransferBody(p)
    \/ CommitTransfer(p)

SpecRace == Init /\ [][NextRace]_vars

\* The key service after InitHSM on an empty directory.
InitHsm ==
  /\ db = InitDB
  /\ rowLock = [ r \in RowIds |-> NoProc ]
  /\ dbtx = [ p \in Workers |-> EmptyTx ]
  /\ pc = [ p \in Workers |-> "idle" ]
  /\ op = [ p \in Workers |-> None ]
  /\ args = [ p \in Workers |-> NoArgs ]
  /\ acct = [ p \in Workers |-> NoSnapshots ]
  /\ req = [ p \in Workers |-> NoReq ]
  /\ resp = [ p \in Workers |-> NoResp ]
  /\ result = [ p \in Workers |-> None ]
  /\ effects = << >>
  /\ settlement_queue = << >>
  /\ pair = << >>
  /\ ncalls = 0
  /\ nfaults = 0
  /\ clock = 0
  /\ LET h == InitHSM(EmptyMap, 0, 0) IN
       /\ keys = h.keys
       /\ keyStore = h.keyStore
       /\ nkeys = h.nkeys
  /\ signatures = {}
  /\ audit = { LogTransfer("KEY_GENERATED", "New key pair generated"),
               LogTransfer("HSM_INIT", "HSM initialized successfully") }
  /\ NoUssd

\* The identifiers callers ask keys for, and the data they sign.
KeyIDs == { << "a" >>, << "a", "_", "2" >>, << "a", "/", "b" >> }

NoSignature == << "sig", 0, "" >>
KeyArgs(keyID) == [ keyID |-> keyID, data |-> "d1", signature |-> NoSignature ]

\* The calls of the methods that generate, use and rotate keys.
KeyUse(p) ==
  \/ \E keyID \in KeyIDs : HsmCall(p, "GenerateKeyPair", KeyArgs(keyID))
  \/ \E keyID \in DOMAIN keys : HsmCall(p, "SignData", KeyArgs(keyID))
  \/ \E s \in signatures :
       HsmCall(p, "VerifySignature",
               [ keyID |-> s.keyID, data |-> s.data, signature |-> s.signature ])
  \/ HsmCall(p, "RotateKeys", KeyArgs(<< >>))
  \/ GenerateKeyPair(p)
  \/ GenerateKeyPairSaveFails(p)
  \/ SignData(p)
  \/ VerifySignature(p)
  \/ RotateKeys(p)
  \/ RotateOne(p)
  \/ RotateDone(p)

NextRotate == Tick \/ \E p \in Procs : KeyUse(p)

SpecRotate == InitHsm /\ [][NextRotate]_vars

\* Callers that ask keys for any short identifier over letters, dots and
\* separators, and for some with other characters.
MaxKeyIDLen == 3
AnyKeyIDs ==
  UNION { [ 1..n -> {"a", ".", "/"} ] : n \in 0..MaxKeyIDLen }
    \cup { << "a", " " >>, << "-" >>, << "A", "_", "9" >>, << "a", "\\" >>,
           << "~" >>, << "a", "b", "c", "d" >> }

NextKeyID ==
  \E p \in Procs :
    \/ \E keyID \in AnyKeyIDs : HsmCall(p, "GenerateKeyPair", KeyArgs(keyID))
    \/ GenerateKeyPair(p)
    \/ GenerateKeyPairSaveFails(p)

SpecKeyID == InitHsm /\ [][NextKeyID]_vars

\* The same with DeleteKey and restarts of the service.
NextHsm ==
  \/ Tick
  \/ Restart
  \/ \E p \in Procs :
       \/ KeyUse(p)
       \/ \E keyID \in DOMAIN keys : HsmCall(p, "DeleteKey", KeyArgs(keyID))
       \/ DeleteKey(p)

SpecHsm == InitHsm /\ [][NextHsm]_vars

\* Transfer called with any amount: negative, zero and positive.
AnyAmounts == (0 - MaxAmount)..MaxAmount

NextAmounts ==
  \E p \in Procs :
    \/ \E from \in LedgerIdents, to \in LedgerIdents, id \in TxIDs, amount \in AnyAmounts :
         StartTransfer(p, from, to, id, amount)
    \/ LockFirst(p)
    \/ LockSecond(p)
    \/ TransferBody(p)
    \/ LedgerInsertFails(p)
    \/ CommitTransfer(p)
    \/ CommitTransferFails(p)

SpecAmounts == Init /\ [][NextAmounts]_vars

\* The USSD service: two users ask for codes, and codes are redeemed.
UssdUsers == {"1", "2"}
Codes == {"c1", "c2"}

NextUssd ==
  \/ (clock < MaxUssdTime /\ Tick)
  \/ CleanupExpiredCodes
  \/ \E p \in Procs :
       \/ \E user \in UssdUsers, codeType \in CodeTypes :
            UssdCall(p, "generateCode",
                     [ userID |-> user, code |-> "", codeType |-> codeType ])
       \/ \E code \in Codes, codeType \in CodeTypes :
            UssdCall(p, "ValidateAndConsume",
                     [ userID |-> "", code |-> code, codeType |-> codeType ])
       \/ generateCode(p)
       \/ \E code \in Codes : generateCodeInsert(p, code)
       \/ incrementRateLimit(p)
       \/ ValidateAndConsume(p)
       \/ ValidateAndConsumeCommit(p)
       \/ ValidateAndConsumeCommitFails(p)

SpecUssd == Init /\ [][NextUssd]_vars

\* The QR service: codes are generated and presented, also ones never issued.
QrAmounts == {1}
QrCodes ==
  [ userId : UssdUsers, amount : QrAmounts, timestamp : 0..MaxQrTime,
    nonce : 1..MaxQrCalls ]

NextQr ==
  \/ (clock < MaxQrTime /\ Tick)
  \/ \E p \in Procs :
       \/ \E user \in UssdUsers, amount \in QrAmounts :
            QrCall(p, "GenerateQRCode",
                   [ userID |-> user, amount |-> amount, code |-> NoQrData ])
       \/ \E code \in QrCodes :
            QrCall(p, "ProcessQRCode", [ userID |-> "", amount |-> 0, code |-> code ])
       \/ GenerateQRCode(p)
       \/ ProcessQRCode(p)
       \/ ProcessQRCodeDel(p)

SpecQr == Init /\ [][NextQr]_vars

\* Transfers between one pair of identifiers, in both directions.
InitAB ==
  /\ db = InitDB
  /\ rowLock = [ r \in RowIds |-> NoProc ]
  /\ dbtx = [ p \in Workers |-> EmptyTx ]
  /\ pc = [ p \in Workers |-> "idle" ]
  /\ op = [ p \in Workers |-> None ]
  /\ args = [ p \in Workers |-> NoArgs ]
  /\ acct = [ p \in Workers |-> NoSnapshots ]
  /\ req = [ p \in Workers |-> NoReq ]
  /\ resp = [ p \in Workers |-> NoResp ]
  /\ result = [ p \in Workers |-> None ]
  /\ effects = << >>
  /\ settlement_queue = << >>
  /\ pair \in { ab \in LedgerIdents \X LedgerIdents : ab[1] # ab[2] }
  /\ audit = {}
  /\ NoHsm
  /\ NoUssd
  /\ ncalls = 0
  /\ nfaults = 0

ProgressAB(p) ==
  \/ LockFirst(p)
  \/ LockSecond(p)
  \/ TransferBody(p)
  \/ CommitTransfer(p)

NextAB ==
  \E p \in Procs :
    \/ \E id \in TxIDs, amount \in Amounts : StartAB(p, id, amount)
    \/ ProgressAB(p)

\* Every worker that can take a step of its call eventually takes one.
SpecAB == InitAB /\ [][NextAB]_vars /\ \A p \in Procs : WF_vars(ProgressAB(p))

\* ------------------------------------------------------------ properties
RECURSIVE SumAmounts(_)
SumAmounts(entries) ==
  IF entries = << >> THEN 0 ELSE Head(entries).amount + SumAmounts(Tail(entries))

EntriesOf(id) == SelectSeq(db.ledger_entries, LAMBDA e : e.transaction_id = id)

CountEntries(id, entryType) ==
  Len(SelectSeq(db.ledger_entries,
                LAMBDA e : e.transaction_id = id /\ e.entry_type = entryType))

CountStates(id, state) ==
  Len(SelectSeq(db.payment_states,
                LAMBDA s : s.transaction_id = id /\ s.state = state))

Finished(p) == pc[p] = "done"
Running(p) == pc[p] \notin {"idle", "done"}

\* C1: after any sequence of Transfer calls, successful or failed, the committed
\* ledger entries of every transaction identifier sum to zero: the ledger is a
\* sequence of pairs, a DEBIT of -amount followed by the CREDIT of +amount of the
\* same identifier, one pair per committed transfer (one per committed SUCCESS
\* payment state) and none for a failed transfer.
C1_DoubleEntry ==
  /\ \A id \in TxIDs :
       /\ SumAmounts(EntriesOf(id)) = 0
       /\ CountEntries(id, "DEBIT") = CountStates(id, "SUCCESS")
       /\ CountEntries(id, "CREDIT") = CountStates(id, "SUCCESS")
       /\ CountStates(id, "FAILED") = 0
  /\ Len(db.ledger_entries) % 2 = 0
  /\ \A i \in 1..Len(db.ledger_entries) :
       i % 2 = 1 =>
         /\ db.ledger_entries[i].entry_type = "DEBIT"
         /\ db.ledger_entries[i + 1].entry_type = "CREDIT"
         /\ db.ledger_entries[i].transaction_id = db.ledger_entries[i + 1].transaction_id
         /\ db.ledger_entries[i].amount < 0
         /\ db.ledger_entries[i + 1].amount = 0 - db.ledger_entries[i].amount

\* A transfer was committed and another one failed.
C1_Witness ==
  /\ Len(db.ledger_entries) >= 2
  /\ \E p \in Procs : Finished(p) /\ result[p] = ErrInsufficient

RECURSIVE SumOver(_, _)
SumOver(f, S) ==
  IF S = {} THEN 0
  ELSE LET x == CHOOSE y \in S : TRUE IN f[x] + SumOver(f, S \ {x})

Succeeded == { p \in Racers : Finished(p) /\ result[p] = Nil }
Requested == [ p \in Racers |-> args[p].amount ]
Min(a, b) == IF a < b THEN a ELSE b

CountRows(id) ==
  Len(SelectSeq(db.transactions, LAMBDA r : r.transaction_id = id))

CountEffects(id) ==
  Len(SelectSeq(effects, LAMBDA e : e.TxID = id))

EntriesOfAccount(row) == SelectSeq(db.ledger_entries, LAMBDA e : e.account_id = row)

\* C3: however often and however concurrently one transaction identifier is
\* submitted to CreateTransaction, at most one submission has a ledger effect:
\* the identifier has at most one transactions row, exactly one DEBIT and one
\* CREDIT entry when it has the row and none otherwise, one committed transfer,
\* and no balance differs from the opening balance by anything but the committed
\* ledger entries of the account.
C3_Idempotent ==
  /\ \A id \in TxIDs :
       /\ CountRows(id) <= 1
       /\ CountEntries(id, "DEBIT") = CountRows(id)
       /\ CountEntries(id, "CREDIT") = CountRows(id)
       /\ CountEffects(id) = CountRows(id)
  /\ \A r \in RowIds :
       db.accounts[r].balance =
         InitDB.accounts[r].balance + SumAmounts(EntriesOfAccount(r))

\* Two concurrent submissions of one identifier have both returned: one was
\* created, the other was turned away by the unique transaction_id.
C3_Witness ==
  \E p \in Procs, q \in Procs :
    /\ p # q
    /\ Finished(p) /\ Finished(q)
    /\ op[p] = "Create" /\ op[q] = "Create"
    /\ req[p].tx.TxID = req[q].tx.TxID
    /\ result[p] = "created"
    /\ result[q] = "Failed to store transaction"

\* C4: for every transaction identifier at most one ledger transfer is ever
\* committed, through CreateTransaction, BatchTransactions or both: the source
\* account is debited at most once per identifier.
C4_AtMostOnce ==
  \A id \in TxIDs : CountEntries(id, "DEBIT") <= 1

\* C5: of the committed transfers, no two with distinct identifiers have the
\* same source card and the same counter.
C5_OneUsePerCounter ==
  \A i \in 1..Len(effects), j \in 1..Len(effects) :
    (i # j /\ effects[i].TxID # effects[j].TxID /\ effects[i].CardID = effects[j].CardID)
      => effects[i].Counter # effects[j].Counter

\* C6: the counters of the committed transfers of a card are strictly increasing
\* in commit order: after counter c has completed no transfer with a counter
\* <= c completes.
C6_CountersIncrease ==
  \A i \in 1..Len(effects), j \in 1..Len(effects) :
    (i < j /\ effects[i].CardID = effects[j].CardID)
      => effects[i].Counter < effects[j].Counter

\* The accounts row the worker is about to lock.
Wants(p) ==
  IF pc[p] = "lock1" THEN Resolve(FirstLock(args[p].from, args[p].to))
  ELSE IF pc[p] = "lock2" THEN Resolve(SecondLock(args[p].from, args[p].to))
  ELSE NoRow

WaitsFor(p, q) == p # q /\ Wants(p) # NoRow /\ rowLock[Wants(p)] = q

\* Two account rows: a cycle of waiting transactions has length two.
CircularWait == \E p \in Workers, q \in Workers : WaitsFor(p, q) /\ WaitsFor(q, p)

\* C7: concurrent Transfer(A, B) and Transfer(B, A) calls that use the same two
\* identifiers never reach a circular wait on the account row locks, and under
\* fair scheduling every call returns.
C7_OppositeTransfersTerminate ==
  /\ [] ~CircularWait
  /\ \A p \in Procs : Running(p) ~> Finished(p)

\* A transfer waits for a row held by a transfer in the opposite direction.
C7_Witness ==
  \E p \in Procs, q \in Procs :
    /\ WaitsFor(q, p)
    /\ args[p].from = args[q].to /\ args[p].to = args[q].from
    /\ Resolve(args[p].from) # Resolve(args[p].to)

InFlight(p) == pc[p] \in {"lock1", "lock2", "body", "commit"}
RowsTouched(p) == { Resolve(args[p].from), Resolve(args[p].to) }

\* C8: any two concurrent transfers that touch the same two accounts lock the
\* two rows in the same order, whichever identifiers name the accounts, and no
\* circular wait is reachable.
C8_SameLockOrder ==
  /\ \A p \in Procs, q \in Procs :
       ( /\ InFlight(p) /\ InFlight(q)
         /\ RowsTouched(p) = {RowA, RowB} /\ RowsTouched(q) = {RowA, RowB} )
       => Resolve(FirstLock(args[p].from, args[p].to))
            = Resolve(FirstLock(args[q].from, args[q].to))
  /\ ~CircularWait

\* C9: a Transfer that returns an error leaves the accounts, the ledger entries
\* and the payment states as they were: the step in which a call returns an
\* error does not change the committed tables, and the only steps of a call that
\* change them are commits of calls that return nil.
C9_FailedTransferRollsBack ==
  [][ /\ \A p \in Procs :
           (pc[p] # "done" /\ pc'[p] = "done" /\ result'[p] # Nil) => db' = db
      /\ db' # db =>
           \E p \in Procs : pc[p] = "commit" /\ pc'[p] = "done" /\ result'[p] = Nil
    ]_vars

\* A transfer failed at its second balance update, after both ledger entries
\* and the first update had been written in its transaction.
C9_Witness ==
  \E p \in Procs : Finished(p) /\ result[p] = ErrOptimistic

TotalBalance(d) == SumOver([ r \in RowIds |-> d.accounts[r].balance ], RowIds)

\* C10: a Transfer between two distinct accounts that returns nil has committed:
\* from is lower by amount, to is higher by amount, the total is unchanged, and
\* the ledger gained the DEBIT and the CREDIT entry of the identifier whose
\* balance snapshots are the two new balances.
C10_SuccessCommits ==
  [][ \A p \in Procs :
        ( /\ op[p] \in {"Transfer", "Transfer013"}
          /\ pc[p] # "done" /\ pc'[p] = "done" /\ result'[p] = Nil
          /\ Resolve(args[p].from) # Resolve(args[p].to) )
        => LET f == Resolve(args[p].from)
               t == Resolve(args[p].to)
               n == Len(db.ledger_entries)
           IN  /\ db'.accounts[f].balance = db.accounts[f].balance - args[p].amount
               /\ db'.accounts[t].balance = db.accounts[t].balance + args[p].amount
               /\ TotalBalance(db') = TotalBalance(db)
               /\ Len(db'.ledger_entries) = n + 2
               /\ db'.ledger_entries[n + 1] =
                    [ transaction_id |-> args[p].id, account_id |-> f,
                      amount |-> 0 - args[p].amount, entry_type |-> "DEBIT",
                      balance |-> db'.accounts[f].balance ]
               /\ db'.ledger_entries[n + 2] =
                    [ transaction_id |-> args[p].id, account_id |-> t,
                      amount |-> args[p].amount, entry_type |-> "CREDIT",
                      balance |-> db'.accounts[t].balance ]
    ]_vars

\* The committed external transfers that debited the account: the handler
\* commits the PENDING row together with the debit and the fee credit.
ExtDebited(row) ==
  SelectSeq(db.transactions,
            LAMBDA r : /\ r.status \in {"PENDING", "FAILED_SETTLEMENT_ERROR"}
                       /\ ExtResolve(r.from_card_id) = row)

ExtCommitted ==
  SelectSeq(db.transactions,
            LAMBDA r : r.status \in {"PENDING", "FAILED_SETTLEMENT_ERROR"})

\* C11: the version of every account is its initial version plus the number of
\* committed balance mutations applied to it: one per ledger entry of the
\* account (Transfer, TransferTx), one per external transfer that debited it and,
\* for the system fee account, one per external transfer that credited its fee.
C11_VersionCountsMutations ==
  \A r \in RowIds :
    db.accounts[r].version =
      InitDB.accounts[r].version + Len(EntriesOfAccount(r)) + Len(ExtDebited(r))
        + (IF r = RowFee THEN Len(ExtCommitted) ELSE 0)

\* HMAC-SHA256 of the canonical serialization under the source card's key.
SignatureValid(tx) ==
  tx.Signature = << << "cak", tx.CardID >>, serializeTransaction(tx) >>

\* C12: CreateTransaction and BatchTransactions produce no ledger entry, no balance
\* change and no transactions row for a transaction whose signature is not the
\* HMAC-SHA256 of its canonical serialization under the source card's key: no
\* worker holds uncommitted writes for such a transaction, and every step that
\* changes the committed tables is taken by a worker whose transaction verifies.
C12_BadSignatureNoEffect ==
  [][ /\ \A p \in Procs : dbtx'[p] # EmptyTx => SignatureValid(req'[p].tx)
      /\ db' # db =>
            \E p \in Procs : pc'[p] # pc[p] /\ SignatureValid(req[p].tx)
    ]_vars

\* A single request and a batch item with a signature made under another key
\* were both turned away.
C12_Witness ==
  /\ \E p \in Procs :
       /\ op[p] = "Create" /\ Finished(p) /\ ~SignatureValid(req[p].tx)
       /\ result[p] = "Signature verification failed"
  /\ \E p \in Procs :
       /\ op[p] = "Batch"
       /\ \E i \in 1..Len(resp[p].failed) :
            resp[p].failed[i].error = "Signature verification failed"

\* C13: a request with a valid signature verifies, and the same request with
\* exactly one authenticated field (version, id, timestamp, source, destination,
\* amount, currency, counter or type) changed to a different value, signature
\* kept, does not: its serialization differs from the signed one.
C13_TamperInvalidates ==
  \A p \in Procs :
    /\ pc[p] = "signed" => SignatureValid(req[p].tx)
    /\ pc[p] = "verified original" => result[p] = Nil
    /\ pc[p] = "tampered" => ~SignatureValid(req[p].tx)
    /\ pc[p] = "verified tampered" =>
         result[p] \in {"signature mismatch", "failed to get card keys"}

\* The destination was changed to a longer string and the counter of another
\* request was changed; both were rejected.
C13_Witness ==
  \E p \in Procs, q \in Procs :
    /\ pc[p] = "verified tampered" /\ result[p] = "signature mismatch"
    /\ req[p].tx.MerchantID = "1card_002"
    /\ pc[q] = "verified tampered" /\ result[q] = "signature mismatch"
    /\ req[q].tx.Counter = TopCounter + 1

\* C14: CreateTransaction lets a transaction past validation only if its
\* timestamp is at most 5 minutes old and at most 30 seconds ahead.
C14_LiveWindow ==
  \A p \in Procs :
    (op[p] = "Create" /\ (pc[p] \notin {"idle", "idem", "validate", "done"}
                            \/ result[p] = "created"))
      => /\ req[p].tx.Timestamp >= Now - 300
         /\ req[p].tx.Timestamp <= Now + 30

CountCompleted(id) ==
  Len(SelectSeq(db.transactions,
                LAMBDA r : r.transaction_id = id /\ r.status = "COMPLETED"))

\* C15: in the single-transaction path the ledger entries of an identifier and
\* its COMPLETED transactions row are committed together or not at all: every
\* identifier has as many DEBIT entries, and as many CREDIT entries, as COMPLETED
\* rows, every row is COMPLETED, and the ledger and the transactions table only
\* change in the same step.
C15_AtomicCreate ==
  /\ [] \A id \in TxIDs :
          /\ CountEntries(id, "DEBIT") = CountCompleted(id)
          /\ CountEntries(id, "CREDIT") = CountCompleted(id)
  /\ [] \A i \in 1..Len(db.transactions) : db.transactions[i].status = "COMPLETED"
  /\ [][ (db'.ledger_entries # db.ledger_entries)
           <=> (db'.transactions # db.transactions) ]_vars

\* One request was committed; another had written its ledger entries and its
\* row when its commit failed.
C15_Witness ==
  /\ Len(db.transactions) = 1
  /\ Len(db.ledger_entries) = 2
  /\ \E p \in Procs : Finished(p) /\ result[p] = "Failed to process transaction"

CountQueued(id) == Len(SelectSeq(settlement_queue, LAMBDA q : q = id))

\* C16: CreateTransaction enqueues a transaction for settlement only after its
\* database transaction committed: an identifier is in the queue at most as
\* often as a request for it committed, a worker about to enqueue has committed,
\* and the step after the commit, whether the push succeeds or fails, leaves the
\* committed tables alone and ends with the success response.
C16_SettleAfterCommit ==
  /\ [] \A id \in TxIDs :
          /\ CountQueued(id) <= CountEffects(id)
          /\ CountQueued(id) <= CountRows(id)
  /\ [] \A p \in Procs : pc[p] = "settle" => CountRows(req[p].tx.TxID) = 1
  /\ [][ \A p \in Procs :
           (pc[p] = "settle" /\ pc'[p] # "settle")
             => (db' = db /\ pc'[p] = "done" /\ result'[p] = "created") ]_vars

\* A request was committed and answered with success although its push to the
\* settlement queue failed; another request was rolled back.
C16_Witness ==
  /\ \E p \in Procs :
       /\ Finished(p) /\ result[p] = "created"
       /\ CountRows(req[p].tx.TxID) = 1
       /\ CountQueued(req[p].tx.TxID) = 0
  /\ nfaults >= 1

CountIn(list, id) == Len(SelectSeq(list, LAMBDA x : x = id))
IdsOf(items) == [ i \in 1..Len(items) |-> items[i].TxID ]
FailedIds(p) == [ i \in 1..Len(resp[p].failed) |-> resp[p].failed[i].txId ]

\* C17: for every batch of 1 to 100 items, when BatchTransactions writes its
\* response every submitted item is in exactly one of the processed and failed
\* lists: summary.total = summary.succeeded + summary.failed = the number of
\* submitted items, and while the loop runs the items handled so far are the
\* ones in the two lists.
C17_BatchPartition ==
  \A p \in Procs :
    op[p] = "Batch" =>
      /\ Len(req[p].items) \in 1..100
      /\ Len(resp[p].processed) + Len(resp[p].failed)
           + (IF Finished(p) THEN 0 ELSE 1 + Len(req[p].rest)) = Len(req[p].items)
      /\ Finished(p) =>
           \A id \in TxIDs :
             CountIn(resp[p].processed, id) + CountIn(FailedIds(p), id)
               = CountIn(IdsOf(req[p].items), id)

\* A batch whose first item failed went on to process its second item.
C17_Witness ==
  \E p \in Procs :
    /\ op[p] = "Batch" /\ Finished(p)
    /\ Len(req[p].items) = 2
    /\ resp[p].failed # << >>
    /\ resp[p].failed[1].txId = req[p].items[1].TxID
    /\ resp[p].processed = << req[p].items[2].TxID >>

\* The failure status that goes with each error response of ExternalBankTransfer.
FailureStatus ==
  [ m \in { "Source account not found", "Source account not active",
            "Insufficient balance", "Failed to process transfer",
            "Failed to send to settlement" } |->
      CASE m = "Source account not found" -> "FAILED_ACCOUNT_NOT_FOUND"
        [] m = "Source account not active" -> "FAILED_ACCOUNT_NOT_ACTIVE"
        [] m = "Insufficient balance" -> "FAILED_INSUFFICIENT_BALANCE"
        [] m = "Failed to process transfer" -> "FAILED_DEBIT_ERROR"
        [] m = "Failed to send to settlement" -> "FAILED_SETTLEMENT_ERROR" ]

\* C18: an ExternalBankTransfer that ended with one of its failures (account not
\* found, inactive, insufficient balance, debit error, settlement-send error) has
\* left a committed transactions row for its identifier.  (The status of that
\* row is the one of the failure when no other request used the identifier.)
C18_FailureStatusPersisted ==
  \A p \in Procs :
    (op[p] = "External" /\ Finished(p) /\ result[p] \in DOMAIN FailureStatus)
      => /\ CountRows(args[p].id) >= 1
         /\ (\A q \in Procs \ {p} : args[q].id # args[p].id)
              => \E i \in 1..Len(db.transactions) :
                   /\ db.transactions[i].transaction_id = args[p].id
                   /\ db.transactions[i].status = FailureStatus[result[p]]

\* The step in which an external transfer commits.
ExtCommits(p) == op[p] = "External" /\ pc[p] = "x_fee" /\ pc'[p] = "x_send"

C20_LookupErrorIsTerminal ==
  [][ \A p \in Procs :
        (pc[p] \in {"idem", "x_idem"} /\ pc'[p] # pc[p] /\ nfaults' # nfaults)
          => (pc'[p] = "done" /\ result'[p] \notin {None, Nil, "created", "PENDING"})
    ]_vars

\* ---------------------------------------------------------------- C21
\* The transaction has an error event in the audit log.
AuditedError(txID) ==
  \E e \in audit : e.TransactionID = txID /\ e.EventType = "ERROR"

SecurityRejections == {"Signature verification failed", "Double spending detected"}

\* C21: when CreateTransaction has answered "Signature verification failed",
\* and for every item a batch lists as failed for a signature mismatch or for
\* double spending, the audit log holds an error event of that transaction.
C21_RejectionAudited ==
  \A p \in Procs :
    /\ (op[p] = "Create" /\ pc[p] = "done" /\ result[p] \in SecurityRejections)
          => AuditedError(req[p].tx.TxID)
    /\ op[p] = "Batch" =>
          \A i \in 1..Len(resp[p].failed) :
            resp[p].failed[i].error \in SecurityRejections
              => AuditedError(resp[p].failed[i].txId)

\* ---------------------------------------------------------------- C22
\* C22: a step of a CreateTransaction, BatchTransactions or ExternalBankTransfer
\* request lowers the committed balance of an account only if the account
\* belongs to the authenticated user of that request.
C22_DebitOnlyOwnAccount ==
  [][ \A p \in Procs, r \in RowIds :
        ( /\ pc'[p] # pc[p]
          /\ op[p] \in {"Create", "Batch", "External"}
          /\ db'.accounts[r].balance < db.accounts[r].balance )
          => user_id(r) = userID(p)
    ]_vars

\* ---------------------------------------------------------------- C23
\* The step in which the GenerateKeyPair call of p runs and returns.
GenerateReturns(p) ==
  pc[p] = "h_wait" /\ op[p] = "GenerateKeyPair" /\ pc'[p] = "done"

\* A non-empty identifier of characters of [a-zA-Z0-9_-].
SafeKeyID(keyID) ==
  keyID # << >> /\ \A i \in 1..Len(keyID) : keyID[i] \in KeyIDChars

\* C23: GenerateKeyPair(id) fails when id is in the registry; a failed
\* GenerateKeyPair leaves the registry as it was; of the calls for one new
\* identifier that run concurrently, no second one succeeds, and the first one
\* to run succeeds unless the key store refuses the file.
C23_GenerateKeyPairOnce ==
  [][ \A p \in Procs :
        GenerateReturns(p) =>
          /\ args[p].keyID \in DOMAIN keys => result'[p] # Nil
          /\ result'[p] # Nil => keys' = keys
          /\ result'[p] = Nil =>
                \A q \in Procs \ {p} :
                  ~( /\ pc[q] = "done"
                     /\ op[q] = "GenerateKeyPair"
                     /\ result[q] = Nil
                     /\ args[p].call \in args[q].overlap )
          /\ ( /\ SafeKeyID(args[p].keyID)
               /\ args[p].keyID \notin DOMAIN keys
               /\ nfaults' = nfaults ) => result'[p] = Nil
    ]_vars

\* Two calls for the same new identifier were waiting together; one has
\* succeeded and the other has failed.
C23_Witness ==
  \E p \in Procs, q \in Procs :
    /\ p # q
    /\ pc[p] = "done" /\ op[p] = "GenerateKeyPair" /\ result[p] = Nil
    /\ pc[q] = "done" /\ op[q] = "GenerateKeyPair"
    /\ args[q].call \in args[p].overlap
    /\ result[q] = "key already exists"
    /\ args[p].keyID \in DOMAIN keys

\* ---------------------------------------------------------------- C24
\* The step in which the call of method by p runs and returns.
MethodReturns(p, method) ==
  pc[p] = "h_wait" /\ op[p] = method /\ pc'[p] = "done"

\* The key registered under the identifier is marked inactive.
Inactive(keyID) == keyID \in DOMAIN keys /\ ~keys[keyID].IsActive

\* C24: SignData on an inactive key returns an error and no signature;
\* VerifySignature on an inactive key returns true for a signature that this
\* key has produced.
C24_InactiveKeyVerifiesOnly ==
  [][ \A p \in Procs :
        /\ (MethodReturns(p, "SignData") /\ Inactive(args[p].keyID))
              => /\ result'[p] \notin {Nil, None}
                 /\ signatures' = signatures
                 /\ args'[p].signature = NoSignature
        /\ ( /\ MethodReturns(p, "VerifySignature")
             /\ Inactive(args[p].keyID)
             /\ \E s \in signatures :
                  /\ s.keyID = args[p].keyID
                  /\ s.key = keys[args[p].keyID].Key
                  /\ s.data = args[p].data
                  /\ s.signature = args[p].signature )
              => result'[p] = "true"
    ]_vars

\* A signature made while the key was active has been verified after the key
\* was marked inactive.
C24_Witness ==
  \E p \in Procs :
    /\ pc[p] = "done"
    /\ op[p] = "VerifySignature"
    /\ result[p] = "true"
    /\ Inactive(args[p].keyID)
    /\ \E s \in signatures : s.keyID = args[p].keyID /\ s.signature = args[p].signature

\* ---------------------------------------------------------------- C25
\* C25: no step makes active an identifier that is inactive (the first step of
\* every way back to active that keeps the identifier registered).
C25_NoReactivation ==
  [][ \A keyID \in DOMAIN keys :
        Inactive(keyID) => ~(keyID \in DOMAIN keys' /\ keys'[keyID].IsActive)
    ]_vars

\* ---------------------------------------------------------------- C26
\* C26: when RotateKeys returns, every key of the registry it started on is
\* still registered; the ones that were expired or inactive are inactive and
\* have an active successor named identifier, "_", time of the rotation; the
\* others are what they were.
C26_RotateKeysEffect ==
  [][ \A p \in Procs :
        (pc[p] = "h_rotate" /\ pc'[p] = "done") =>
          \A keyID \in DOMAIN args[p].before :
            LET old == args[p].before[keyID]
                id == newKeyID(keyID, args[p].now)
            IN  /\ keyID \in DOMAIN keys'
                /\ IF DueForRotation(old, args[p].now)
                   THEN /\ ~keys'[keyID].IsActive
                        /\ id \in DOMAIN keys'
                        /\ keys'[id].IsActive
                   ELSE keys'[keyID] = old
    ]_vars

\* ---------------------------------------------------------------- C27
\* C27: every signature SignData has returned is verified by the key now
\* registered under the identifier it was made with.
C27_SignaturesStayValid ==
  \A s \in signatures :
    /\ s.keyID \in DOMAIN keys
    /\ VerifyPKCS1v15(keys[s.keyID].Key, s.data, s.signature)

\* ---------------------------------------------------------------- C28
\* The identifier is empty, absolute, not path-clean, or has a character
\* outside [a-zA-Z0-9_-].
UnsafeKeyID(keyID) ==
  \/ keyID = << >>
  \/ IsAbs(keyID)
  \/ Clean(keyID) # keyID
  \/ \E i \in 1..Len(keyID) : keyID[i] \notin KeyIDChars

\* C28: GenerateKeyPair with such an identifier returns an error and changes
\* neither the registry nor the directory, and every file of the key store is
\* directly in the key-store directory.
C28_KeyFilesConfined ==
  /\ [](\A f \in DOMAIN keyStore : Dir(f) = keyStorePath)
  /\ [][ \A p \in Procs :
           (GenerateReturns(p) /\ UnsafeKeyID(args[p].keyID)) =>
             /\ result'[p] \notin {Nil, None}
             /\ keys' = keys
             /\ keyStore' = keyStore
       ]_vars

\* One call with a path as identifier was refused and one with a safe
\* identifier has written its file.
C28_Witness ==
  \E p \in Procs, q \in Procs :
    /\ pc[p] = "done" /\ op[p] = "GenerateKeyPair"
    /\ \E i \in 1..Len(args[p].keyID) : args[p].keyID[i] = "/"
    /\ result[p] = "invalid key ID"
    /\ pc[q] = "done" /\ op[q] = "GenerateKeyPair" /\ result[q] = Nil
    /\ KeyPath(args[q].keyID) \in DOMAIN keyStore

\* ---------------------------------------------------------------- C29
\* ValidateAndConsume of p returns in this step, and not with an injected
\* store error.
ConsumeReturns(p) ==
  /\ op[p] = "ValidateAndConsume"
  /\ pc[p] \in {"u_start", "v_update"}
  /\ pc'[p] = "done"
  /\ nfaults' = nfaults

\* The stored rows of the code and type p was called with.
RowsOf(p) ==
  { r \in ussd_codes : /\ r.code_hash = hashCode(args[p].code)
                        /\ r.code_type = args[p].codeType }

\* C29 as stated: a call for a stored code either consumes it, unused and not
\* expired when the call was made, or returns 'code already used'.
C29_ConsumedOnceElseUsed ==
  [][ \A p \in Procs :
        (ConsumeReturns(p) /\ RowsOf(p) # {}) =>
          \/ /\ result'[p] = "ok"
             /\ \E r \in RowsOf(p) : ~r.used /\ args[p].start <= r.expires_at
          \/ result'[p] = "code already used"
    ]_vars

\* C29: a consumed row stays consumed; a call succeeds only on a row that was
\* unused and that had not expired when the call was made, and marks it used;
\* a call that finds the row used returns 'code already used', and one that
\* finds it unused and expired returns 'code expired'.
C29_ConsumedOnce ==
  [][ /\ \A r \in ussd_codes :
           r.used => \A r2 \in ussd_codes' :
                       r2.transaction_id = r.transaction_id => r2.used
      /\ \A p \in Procs :
           ConsumeReturns(p) =>
             /\ Cardinality(RowsOf(p)) <= 1
             /\ (result'[p] = "ok") =>
                  \E r \in RowsOf(p) :
                    /\ ~r.used
                    /\ args[p].start <= r.expires_at
                    /\ \E r2 \in ussd_codes' :
                         r2.transaction_id = r.transaction_id /\ r2.used
             /\ \A r \in RowsOf(p) :
                  /\ r.used => result'[p] = "code already used"
                  /\ (~r.used /\ pc[p] = "u_start" /\ clock > r.expires_at) =>
                       result'[p] = "code expired"
    ]_vars

\* Two calls with the same code and type have returned: one consumed the
\* code, the other was told that it is used.
C29_Witness ==
  \E p \in Procs, q \in Procs :
    /\ pc[p] = "done" /\ op[p] = "ValidateAndConsume" /\ result[p] = "ok"
    /\ pc[q] = "done" /\ op[q] = "ValidateAndConsume"
    /\ result[q] = "code already used"
    /\ args[q].code = args[p].code /\ args[q].codeType = args[p].codeType

\* ---------------------------------------------------------------- C30
\* C30: in every window of RateLimitWindow, a user was given at most
\* MaxGenerationPerUser codes.
C30_RateLimit ==
  \A user \in UssdUsers, t \in 0..MaxTime :
    Cardinality({ e \in issued : /\ e.user_id = user
                                 /\ t <= e.at
                                 /\ e.at < t + RateLimitWindow })
      <= MaxGenerationPerUser

\* ---------------------------------------------------------------- C31
\* ProcessQRCode of p returns in this step.
ProcessReturns(p) ==
  op[p] = "ProcessQRCode" /\ pc[p] \in {"q_start", "q_del"} /\ pc'[p] = "done"

\* C31: a call of ProcessQRCode returns the payment data only for a code that
\* is still stored (no other call has returned its data) and that had not
\* expired when the call was made, and the code is gone afterwards.
C31_ProcessedOnce ==
  [][ \A p \in Procs :
        (ProcessReturns(p) /\ result'[p] = Nil) =>
          /\ args[p].code \in DOMAIN qr
          /\ args[p].start < qr[args[p].code].expireAt
          /\ args[p].code \notin DOMAIN qr'
    ]_vars

\* ---------------------------------------------------------------- C32
\* What TransferTx does for worker p once both locks are held.
BodyOf(p) ==
  IF op[p] = "Transfer013"
  THEN TransferTx013Body(db, dbtx[p], args[p], acct[p].first, acct[p].second)
  ELSE TransferTxBody(db, dbtx[p], args[p], acct[p].first, acct[p].second)

\* The ledger entries that TransferTx adds to the transaction of p.
NewEntries(p) ==
  SubSeq(BodyOf(p).tx.ledger_entries, Len(dbtx[p].ledger_entries) + 1,
         Len(BodyOf(p).tx.ledger_entries))

\* The snapshot lockAccount read for the row of the identifier.
SnapshotOf(p, accountID) ==
  IF acct[p].first.ID = Resolve(accountID) THEN acct[p].first ELSE acct[p].second

\* C32: whatever the order of the two identifiers, the balance check is made
\* on the account of fromAccountID, the first entry written is the DEBIT of
\* -amount against it and the second the CREDIT of +amount against the
\* account of toAccountID.
C32_DirectionKept ==
  \A p \in Workers :
    (pc[p] = "body" /\ op[p] \in {"Transfer", "Transfer013"}) =>
      /\ (BodyOf(p).err = ErrInsufficient) <=>
           (SnapshotOf(p, args[p].from).Balance < args[p].amount)
      /\ \A i \in 1..Len(NewEntries(p)) :
           /\ i = 1 => /\ NewEntries(p)[i].entry_type = "DEBIT"
                       /\ NewEntries(p)[i].account_id = Resolve(args[p].from)
                       /\ NewEntries(p)[i].amount = 0 - args[p].amount
           /\ i = 2 => /\ NewEntries(p)[i].entry_type = "CREDIT"
                       /\ NewEntries(p)[i].account_id = Resolve(args[p].to)
                       /\ NewEntries(p)[i].amount = args[p].amount

\* ---------------------------------------------------------------- C33
\* C33 as stated: with the row locks taken when the two accounts are read, no
\* call of Transfer returns the optimistic-lock failure.
C33_NoOptimisticFailure ==
  \A p \in Procs :
    (Finished(p) /\ op[p] = "Transfer") => result[p] # ErrOptimistic

\* C33: a Transfer between two different account rows never returns the
\* optimistic-lock failure; a Transfer whose two identifiers name one row
\* never returns nil.
C33_NoOptimisticFailureDistinctRows ==
  \A p \in Procs :
    (Finished(p) /\ op[p] = "Transfer") =>
      /\ Resolve(args[p].from) # Resolve(args[p].to) => result[p] # ErrOptimistic
      /\ Resolve(args[p].from) = Resolve(args[p].to) => result[p] # Nil

\* A transfer between two rows has committed on a row that an earlier
\* transfer had already moved to a later version.
C33_Witness ==
  \E p \in Procs :
    /\ Finished(p) /\ op[p] = "Transfer" /\ result[p] = Nil
    /\ Resolve(args[p].from) # Resolve(args[p].to)
    /\ db.accounts[Resolve(args[p].from)].version > 2

\* ---------------------------------------------------------------- C34
\* Worker p takes the step in which validateTransaction, verifySignature and
\* (for a batch item) checkDoubleSpending run.
ChecksRun(p) == pc[p] \in {"validate", "b_validate"} /\ pc'[p] # pc[p]

\* The checks made worker p reject the transaction.
Rejected(p) == ChecksRun(p) /\ pc'[p] # "lock1"

\* C34: the step that runs validateTransaction, verifySignature and
\* checkDoubleSpending changes no account, ledger entry, payment state or
\* transaction record, no Redis key and no audit event; when it rejects the
\* transaction, no database transaction has been opened for it either.
C34_ChecksHaveNoEffect ==
  [][ \A p \in Procs :
        /\ ChecksRun(p) =>
             /\ db' = db
             /\ settlement_queue' = settlement_queue
             /\ ratelimit' = ratelimit /\ qr' = qr
             /\ audit' = audit
             /\ effects' = effects
        /\ Rejected(p) => dbtx' = dbtx /\ rowLock' = rowLock
    ]_vars

\* A batch item was rejected by the balance check of validateTransaction
\* after an earlier transfer had been committed.
C34_Witness ==
  /\ Len(db.ledger_entries) > 0
  /\ \E p \in Procs : \E i \in 1..Len(resp[p].failed) :
       resp[p].failed[i].error = ErrInsufficient

\* ---------------------------------------------------------------- C35
\* C35: whatever the amount, a Transfer that commits leaves the balance of
\* the source account and of the destination account at zero or above.
C35_BalancesNonNegative ==
  [][ \A p \in Procs :
        (op[p] = "Transfer" /\ pc[p] = "commit" /\ pc'[p] = "done" /\ result'[p] = Nil) =>
          /\ db'.accounts[Resolve(args[p].from)].balance >= 0
          /\ db'.accounts[Resolve(args[p].to)].balance >= 0
    ]_vars

\* ---------------------------------------------------------------- C36
\* Worker p appends the item it is handling to the failed list.
ReportsFailed(p) == op[p] = "Batch" /\ Len(resp'[p].failed) > Len(resp[p].failed)

\* processLedgerTransfer has returned nil for the item worker p is handling:
\* the ledger.Transfer of the item is committed and storeTransaction is next.
TransferCommitted(p) ==
  /\ pc[p] = "b_store"
  /\ CountEntries(req[p].tx.TxID, "DEBIT") >= 1

\* C36: an item is reported in failed only if the request has committed no
\* ledger transfer for it.
C36_FailedHasNoEffect ==
  [][ \A p \in Procs : ReportsFailed(p) => ~TransferCommitted(p) ]_vars

\* ---------------------------------------------------------------- C37
\* The fields that serializeTransaction covers.
AuthFields ==
  {"Version", "TxID", "Timestamp", "CardID", "MerchantID", "Amount", "Currency",
   "Counter", "TxType"}

\* C37: a transaction that differs from the one that was signed in one or
\* more of the authenticated fields does not serialize to the same bytes.
C37_SerializationInjective ==
  \A p \in Procs :
    (\E f \in AuthFields : req[p].tx[f] # req[p].items[1][f]) =>
      serializeTransaction(req[p].tx) # serializeTransaction(req[p].items[1])

\* ---------------------------------------------------------------- C38
\* Some request for the identifier is still being handled.
BeingHandled(id) ==
  \E p \in Procs : pc[p] \notin {"idle", "done"} /\ req[p].tx.TxID = id

\* C38: once no request for an identifier is being handled any more, the
\* audit log holds a TRANSFER event with status SUCCESS for it only if its
\* ledger transfer is committed.
C38_SuccessAuditedOnlyIfCommitted ==
  \A id \in TxIDs :
    (LogTransfer(id, "SUCCESS") \in audit /\ ~BeingHandled(id)) =>
      CountEntries(id, "DEBIT") >= 1

\* ---------------------------------------------------------------- C39
\* The responses of the paths of ExternalBankTransfer that write a FAILED_*
\* status: account not found, not active, insufficient balance, debit error,
\* and settlement error.
FailedResponses ==
  {"Source account not found", "Source account not active", "Insufficient balance",
   "Failed to process transfer", "Failed to send to settlement"}

\* Every ExternalBankTransfer request made so far is the last request of its
\* worker, has returned, and ended on a path that writes a FAILED_* status.
AllRequestsFailed ==
  LET done == { p \in Procs : op[p] = "External" /\ pc[p] = "done" } IN
  /\ ncalls = Cardinality(done)
  /\ ncalls >= 1
  /\ \A p \in done : result[p] \in FailedResponses

NeedsRow(p) ==
  IF op[p] = "External" /\ pc[p] = "x_lock" THEN ExtResolve(args[p].from)
  ELSE IF op[p] = "External" /\ pc[p] = "x_fee" /\ calculateFee(args[p].amount) > 0
    THEN RowFee
  ELSE IF op[p] = "Transfer" THEN Wants(p)
  ELSE NoRow

Blocks(q, p) == p # q /\ NeedsRow(p) # NoRow /\ rowLock[NeedsRow(p)] = q

\* C40: an ExternalBankTransfer and a Transfer never wait for a row lock of
\* each other.
C40_NoCircularWait ==
  ~ \E p \in Procs, q \in Procs :
      /\ op[p] = "External" /\ op[q] = "Transfer"
      /\ Blocks(q, p) /\ Blocks(p, q)

TypeOK ==
  /\ rowLock \in [RowIds -> Workers \cup {NoProc}]
  /\ ncalls \in Nat
  /\ nfaults \in 0..MaxFaults

====
